---- MODULE Spec2Model ----
(***************************************************************************)
(* Model of the rhythm analyzer, the recorder, the patterns API and the   *)
(* notation editor of badgerhoneymoon/r-pattern.                          *)
(*                                                                         *)
(* The analyzer component (GuitarRhythmAnalyzer) decodes a recording,     *)
(* schedules analyzeRhythm 100 ms later, and publishes an AnalysisResult   *)
(* that the grid component (EnhancedRhythmGrid) classifies.                *)
(*                                                                         *)
(* Numbers.  The source computes in IEEE doubles and Float32Arrays; the    *)
(* model computes in integers:                                             *)
(*   - a sample is its magnitude |x[i]| in units of 1/64 of full scale     *)
(*     (the source reads samples only through Math.abs);                   *)
(*   - times are in milliseconds (time = 1000 * sampleIndex / sampleRate), *)
(*     exact because SampleRate divides 1000;                              *)
(*   - the envelope, the novelty and the z-score are fixed-point values,   *)
(*     rounded toward zero where the source rounds to a float;             *)
(*   - a local energy (a mean over 1..2*win+1 samples) is kept in units    *)
(*     of 1/EnergyDen, which makes every mean an integer;                  *)
(*   - the minimum separation is a fraction [num, den] of milliseconds.    *)
(* Sample index i of the source (0-based) is position i+1 of a sequence.   *)
(*                                                                         *)
(* Specifications.                                                         *)
(*   Spec       the component: record, decode, analyze, publish;           *)
(*   SpecRefine step 2 of analyzeRhythm applied to lists of raw onsets;    *)
(*   SpecTempo  estimateTempo applied to onset lists;                      *)
(*   SpecGrid      the grid's classification, markers and grid lines;       *)
(*   SpecDetect    detectOnsets applied to buffers with attacks;            *)
(*   SpecUpload    the component with the upload area;                      *)
(*   SpecRerecord  the component with several takes in one session;         *)
(*   SpecMetronome the recorder's metronome beside the takes;               *)
(*   SpecPatterns  the patterns API serving concurrent requests;            *)
(*   SpecEditing   the notation editor's grid;                              *)
(*   SpecPlayback  the editor's playback timer beside the edits;            *)
(*   SpecNaming    the editor's pattern name under load and overwrite.      *)
(***************************************************************************)
EXTENDS Integers, Sequences, FiniteSets, TLC

----------------------------------------------------------------------------
(* Arithmetic helpers *)

Abs(v) == IF v < 0 THEN 0 - v ELSE v

Max(a, b) == IF a >= b THEN a ELSE b

Min(a, b) == IF a <= b THEN a ELSE b

\* s[i] for the source's 0-based index i
At(s, i) == s[i + 1]

\* Division rounding toward zero (the fixed-point analogue of a float quotient)
TruncDiv(a, b) == IF a < 0 THEN 0 - ((0 - a) \div b) ELSE a \div b

\* Math.round: the nearest integer, halves rounded up; a / b with b > 0
RoundDiv(a, b) == (2 * a + b) \div (2 * b)

\* Newton's iteration for the integer square root, from a guess r >= sqrt(x)
RECURSIVE SqrtNewton(_, _)
SqrtNewton(x, r) ==
  IF (r + x \div r) \div 2 >= r THEN r ELSE SqrtNewton(x, (r + x \div r) \div 2)

\* Math.sqrt on the fixed-point grid: the largest r with r*r <= x
ISqrt(x) ==
  IF x = 0 THEN 0
  ELSE SqrtNewton(x, IF x < 256 THEN 16
                     ELSE IF x < 65536 THEN 256
                     ELSE IF x < 16777216 THEN 4096
                     ELSE 46340)

RECURSIVE Gcd(_, _)
Gcd(a, b) == IF b = 0 THEN a ELSE Gcd(b, a % b)

RECURSIVE LcmUpTo(_)
LcmUpTo(n) == IF n <= 1 THEN 1
              ELSE LET l == LcmUpTo(n - 1) IN (l * n) \div Gcd(l, n)

----------------------------------------------------------------------------
(* Array.prototype.sort with a numeric comparator: a stable sort.  Items   *)
(* are records [k, v]; the result is ascending in k, ties in input order.  *)

RECURSIVE InsertByKey(_, _)
InsertByKey(sorted, x) ==
  IF sorted = <<>> THEN <<x>>
  ELSE IF sorted[Len(sorted)].k <= x.k THEN Append(sorted, x)
  ELSE Append(InsertByKey(SubSeq(sorted, 1, Len(sorted) - 1), x), sorted[Len(sorted)])

RECURSIVE StableSortFrom(_, _, _)
StableSortFrom(items, i, sorted) ==
  IF i > Len(items) THEN sorted
  ELSE StableSortFrom(items, i + 1, InsertByKey(sorted, items[i]))

StableSort(items) == StableSortFrom(items, 1, <<>>)

\* [...nums].sort((a, b) => a - b)
SortAsc(nums) ==
  LET s == StableSort([i \in 1..Len(nums) |-> [k |-> nums[i], v |-> nums[i]]])
  IN [i \in 1..Len(s) |-> s[i].v]

----------------------------------------------------------------------------
(* The decoded audio: buffer.sampleRate and the channel-0 samples *)

\* buffer.sampleRate, in samples per second (a scale model of 44100)
SampleRate == 50

\* the time of sample index i, in milliseconds (i / sr seconds)
TimeOfSample(i) == (i * 1000) \div SampleRate

\* buffer.duration in milliseconds
DurationOf(x) == TimeOfSample(Len(x))

----------------------------------------------------------------------------
(* detectOnsets *)

\* envAlpha = 1 - exp(-1 / (sr * tau)), tau = 10 ms: about 0.865 at this
\* sample rate, kept as the fraction EnvAlphaNum / EnvAlphaDen
EnvAlphaNum == 7

EnvAlphaDen == 8

\* one step of the moving average: (1 - envAlpha) * envPrev + envAlpha * rect
Ema(envPrev, rect) ==
  ((EnvAlphaDen - EnvAlphaNum) * envPrev + EnvAlphaNum * rect) \div EnvAlphaDen

\* Envelope: rectify + exponential moving average.  The loop index i is
\* Len(env) and envPrev is the last value stored (0 before the first).
RECURSIVE EnvLoop(_, _)
EnvLoop(x, env) ==
  IF Len(env) >= Len(x) THEN env
  ELSE EnvLoop(x, Append(env, Ema(IF Len(env) = 0 THEN 0 ELSE env[Len(env)],
                                  Abs(At(x, Len(env))))))

Envelope(x) == EnvLoop(x, <<>>)

\* diffWin = max(1, floor(sr * 0.015))
DiffWin == Max(1, (SampleRate * 15) \div 1000)

\* the gamma expansion pow(d, 1.5) = sqrt(d^3) of a positive difference
Gamma(d) == IF d > 0 THEN ISqrt(d * d * d) ELSE 0

\* Novelty: positive difference of the envelope over diffWin samples, then
\* the gamma expansion
Novelty(env) ==
  [p \in 1..Len(env) |->
     IF p - 1 >= DiffWin THEN Gamma(env[p] - env[p - DiffWin]) ELSE 0]

\* win = max(1, floor(sr * 0.5)): the sliding statistics window
StatWin == Max(1, SampleRate \div 2)

\* fixed-point scale of a z-score
ZScale == 1000

\* z = (v - mean) / std when std > 0, else 0.  With n values in the window,
\* num = n*v - sum = n*(v - mean) and stdN = sqrt(n*sumSq - sum^2) = n*std.
ZQuot(num, stdN) == IF stdN > 0 THEN TruncDiv(ZScale * num, stdN) ELSE 0

ZValue(n, v, sum, sumSq) ==
  ZQuot(n * v - sum, ISqrt(IF n > 1 THEN Max(0, n * sumSq - sum * sum) ELSE 0))

\* buf.push(v); sum += v; sumSq += v * v
ZPush(st, v) ==
  [sum |-> st.sum + v, sumSq |-> st.sumSq + v * v, buf |-> Append(st.buf, v), z |-> st.z]

\* if (buf.length > win) { r = buf.shift(); sum -= r; sumSq -= r * r }
ZShift(st) ==
  IF Len(st.buf) > StatWin
  THEN [sum |-> st.sum - Head(st.buf), sumSq |-> st.sumSq - Head(st.buf) * Head(st.buf),
        buf |-> Tail(st.buf), z |-> st.z]
  ELSE st

\* z[i] = std > 1e-12 ? (v - mean) / std : 0
ZStore(st, v) ==
  [st EXCEPT !.z = Append(st.z, ZValue(Len(st.buf), v, st.sum, st.sumSq))]

\* Sliding statistics over the last StatWin novelty values (running sum and
\* sum of squares over a queue).  The loop index i is Len(st.z).
RECURSIVE ZLoop(_, _)
ZLoop(nov, st) ==
  IF Len(st.z) >= Len(nov) THEN st.z
  ELSE ZLoop(nov, ZStore(ZShift(ZPush(st, At(nov, Len(st.z)))), At(nov, Len(st.z))))

ZScores(nov) == ZLoop(nov, [sum |-> 0, sumSq |-> 0, buf |-> <<>>, z |-> <<>>])

\* minSep = floor(sr * 0.18): the refractory period, in samples
DetectMinSep == (SampleRate * 18) \div 100

\* refine = floor(sr * 0.02): the half-width of the refinement window
RefineWin == (SampleRate * 2) \div 100

\* zThresh = 0.8
ZThresh == (8 * ZScale) \div 10

\* refine to max envelope near the peak: the first index of the largest
\* envelope value in i0..i1 that exceeds env[i], else i
RECURSIVE RefineLoop(_, _, _, _, _)
RefineLoop(env, j, i1, bestI, bestV) ==
  IF j > i1 THEN bestI
  ELSE IF At(env, j) > bestV THEN RefineLoop(env, j + 1, i1, j, At(env, j))
  ELSE RefineLoop(env, j + 1, i1, bestI, bestV)

\* a variant of RefinePeak that leaves the accepted sample where it is
RefinePeakUnmoved(env, i) == i

RefinePeak(env, i) ==
  RefineLoop(env, Max(0, i - RefineWin), Min(Len(env) - 1, i + RefineWin),
             i, At(env, i))

\* a variant of IsPeak that accepts any local maximum of z
IsPeakAnyHeight(z, i) ==
  /\ At(z, i) >= At(z, i - 1)
  /\ At(z, i) >= At(z, i + 1)

\* z[i] is a local maximum above the threshold
IsPeak(z, i) ==
  /\ At(z, i) > ZThresh
  /\ At(z, i) >= At(z, i - 1)
  /\ At(z, i) >= At(z, i + 1)

\* Peak picking with the refractory period and local refinement
RECURSIVE PickLoop(_, _, _, _, _, _)
PickLoop(z, env, i, last, idx, onsets) ==
  IF i >= Len(z) - 1 THEN onsets
  ELSE IF IsPeak(z, i) /\ ~(i - last < DetectMinSep)
       THEN PickLoop(z, env, i + 1, i, idx + 1,
                     Append(onsets, [time |-> TimeOfSample(RefinePeak(env, i)),
                                     index |-> idx]))
       ELSE PickLoop(z, env, i + 1, last, idx, onsets)

PickPeaks(env, z) == PickLoop(z, env, 1, 0 - DetectMinSep, 0, <<>>)

PeaksOfEnvelope(env) == PickPeaks(env, ZScores(Novelty(env)))

DetectOnsets(x) == PeaksOfEnvelope(Envelope(x))

----------------------------------------------------------------------------
(* estimateTempo *)

\* null / undefined: an absent number
Null == -1

\* a JavaScript number used as a condition (metronomeBPM || 120)
Truthy(v) == v # Null /\ v # 0

\* the inter-onset intervals of a list of records with a time field
Intervals(s) == [i \in 1..(Len(s) - 1) |-> s[i + 1].time - s[i].time]

\* sorted[Math.floor(sorted.length / 2)]: the (upper) median of a sorted list
MidOf(sorted) == At(sorted, Len(sorted) \div 2)

\* a variant of estimateTempo whose halving starts at 240 instead of
\* above 200
EstimateTempoLateHalving(onsets) ==
  IF Len(onsets) < 2 THEN Null
  ELSE LET medianInterval == MidOf(SortAsc(Intervals(onsets)))
           bpm == RoundDiv(60000, medianInterval)
       IN IF bpm < 40 THEN bpm * 2
          ELSE IF bpm >= 240 THEN RoundDiv(bpm, 2)
          ELSE bpm

EstimateTempo(onsets) ==
  IF Len(onsets) < 2 THEN Null
  ELSE LET medianInterval == MidOf(SortAsc(Intervals(onsets)))
           \* Math.round(60 / medianInterval), the interval in milliseconds
           bpm == RoundDiv(60000, medianInterval)
       IN IF bpm < 40 THEN bpm * 2
          ELSE IF bpm > 200 THEN RoundDiv(bpm, 2)
          ELSE bpm

----------------------------------------------------------------------------
(* analyzeRhythm, step 2: refine the raw onsets *)

\* win = max(1, floor(sr * 0.020)): half-width of the local-energy window
EnergyWin == Max(1, (SampleRate * 20) \div 1000)

\* a mean over 1..2*EnergyWin+1 samples is an integer in units of 1/EnergyDen
EnergyDen == LcmUpTo(2 * EnergyWin + 1)

RECURSIVE SumAbs(_, _, _)
SumAbs(data, i, i1) ==
  IF i > i1 THEN 0 ELSE Abs(At(data, i)) + SumAbs(data, i + 1, i1)

\* the mean magnitude of the samples within EnergyWin of the onset
LocalEnergy(data, o) ==
  LET c == (o.time * SampleRate) \div 1000
      i0 == Max(0, c - EnergyWin)
      i1 == Min(Len(data) - 1, c + EnergyWin)
  IN (SumAbs(data, i0, i1) * EnergyDen) \div (i1 - i0 + 1)

Energies(data, onsets) == [i \in 1..Len(onsets) |-> LocalEnergy(data, onsets[i])]

\* sorted[Math.floor(sorted.length / 2)] || 0
MidOrZero(sorted) == IF Len(sorted) = 0 THEN 0 ELSE MidOf(sorted)

\* devs = sorted.map(v => Math.abs(v - med)).sort((a, b) => a - b)
Deviations(sorted, med) == SortAsc([i \in 1..Len(sorted) |-> Abs(sorted[i] - med)])

ThresholdOf(sorted, med) == med + 2 * MidOrZero(Deviations(sorted, med))

MadThreshold(sorted) == ThresholdOf(sorted, MidOrZero(sorted))

\* robust threshold: eThresh = median + 2 * MAD of the energies
EnergyThreshold(energies) == MadThreshold(SortAsc(energies))

\* the onsets with their energies: { ...o, e: energies[i] }
WithEnergy(onsets, energies) ==
  [i \in 1..Len(onsets) |->
     [time |-> onsets[i].time, index |-> onsets[i].index, e |-> energies[i]]]

\* filter weak: energies[i] >= eThresh
FilterWeak(withE, eThresh) ==
  LET Strong(o) == o.e >= eThresh IN SelectSeq(withE, Strong)

\* the number of onsets the fallback keeps
FallbackKeep == 8

\* a variant of TopStrongest that keeps the first FallbackKeep onsets
TopStrongestFirst(withE) == SubSeq(withE, 1, Min(FallbackKeep, Len(withE)))

\* fallback: the FallbackKeep strongest onsets, in time order
TopStrongest(withE) ==
  LET byE == StableSort([i \in 1..Len(withE) |-> [k |-> 0 - withE[i].e, v |-> withE[i]]])
      top == SubSeq(byE, 1, Min(FallbackKeep, Len(byE)))
      byT == StableSort([i \in 1..Len(top) |-> [k |-> top[i].v.time, v |-> top[i].v]])
  IN [i \in 1..Len(byT) |-> byT[i].v]

\* whether the fallback branch is taken
UsesFallback(withE, eThresh) ==
  Len(FilterWeak(withE, eThresh)) = 0 /\ Len(withE) > 0

\* a variant of StrongOnsets without the fallback
StrongOnsetsNoFallback(withE, eThresh) == FilterWeak(withE, eThresh)

StrongOnsets(withE, eThresh) ==
  IF UsesFallback(withE, eThresh) THEN TopStrongest(withE)
  ELSE FilterWeak(withE, eThresh)

\* a variant of MinSepSec that prefers the metronome's tempo to the
\* median interval
MinSepSecTempoFirst(strong, metronomeBPM) ==
  IF Truthy(metronomeBPM)
  THEN [num |-> Max(180 * metronomeBPM, 13500), den |-> metronomeBPM]
  ELSE IF Len(strong) >= 3
  THEN [num |-> Max(180 * 20, Min(600 * 20, 9 * MidOf(SortAsc(Intervals(strong))))),
        den |-> 20]
  ELSE [num |-> 180, den |-> 1]

\* minSepSec as the fraction num / den of milliseconds:
\*   0.18 s;  max(0.18, min(0.60, 0.45 * medianIOI));
\*   max(0.18, 0.45 * (60 / (metronomeBPM * 2)))
MinSepSec(strong, metronomeBPM) ==
  IF Len(strong) >= 3
  THEN LET medianIOI == MidOf(SortAsc(Intervals(strong)))
       IN IF medianIOI > 0
          THEN [num |-> Max(180 * 20, Min(600 * 20, 9 * medianIOI)), den |-> 20]
          ELSE [num |-> 180, den |-> 1]
  ELSE IF Truthy(metronomeBPM)
  THEN [num |-> Max(180 * metronomeBPM, 13500), den |-> metronomeBPM]
  ELSE [num |-> 180, den |-> 1]

\* o.time - last.time < minSepSec
Closer(o, last, minSep) == (o.time - last.time) * minSep.den < minSep.num

\* a variant of MergeStep that appends the stronger onset instead of
\* putting it in the place of the last kept one
MergeStepAppending(merged, o, minSep) ==
  IF Len(merged) = 0 THEN Append(merged, o)
  ELSE LET last == merged[Len(merged)]
       IN IF Closer(o, last, minSep)
          THEN (IF o.e > last.e THEN Append(merged, o) ELSE merged)
          ELSE Append(merged, o)

\* a variant of MergeStep where the later onset wins a tie
MergeStepTieLater(merged, o, minSep) ==
  IF Len(merged) = 0 THEN Append(merged, o)
  ELSE LET last == merged[Len(merged)]
       IN IF Closer(o, last, minSep)
          THEN (IF o.e >= last.e THEN [merged EXCEPT ![Len(merged)] = o] ELSE merged)
          ELSE Append(merged, o)

\* one step of the forward merge
MergeStep(merged, o, minSep) ==
  IF Len(merged) = 0 THEN Append(merged, o)
  ELSE LET last == merged[Len(merged)]
       IN IF Closer(o, last, minSep)
          THEN (IF o.e > last.e THEN [merged EXCEPT ![Len(merged)] = o] ELSE merged)
          ELSE Append(merged, o)

RECURSIVE MergeLoop(_, _, _, _)
MergeLoop(strong, i, merged, minSep) ==
  IF i > Len(strong) THEN merged
  ELSE MergeLoop(strong, i + 1, MergeStep(merged, strong[i], minSep), minSep)

MergeClose(strong, minSep) == MergeLoop(strong, 1, <<>>, minSep)

\* onsets = merged.map((m, i) => ({ time: m.time, index: i }))
Reindex(merged) == [i \in 1..Len(merged) |-> [time |-> merged[i].time, index |-> i - 1]]

----------------------------------------------------------------------------
(* analyzeRhythm, steps 3 and 4: the tempo and the -1 bar offset *)

\* a variant of FinalBPM that applies estimateTempo's octave correction to
\* the metronome's tempo (the properties of the tempo must tell it apart)
FinalBPMCorrected(metronomeBPM) ==
  IF ~Truthy(metronomeBPM) THEN 120
  ELSE IF metronomeBPM > 200 THEN RoundDiv(metronomeBPM, 2)
  ELSE metronomeBPM

\* a variant of FinalBPM with another default tempo
FinalBPMDefault100(metronomeBPM) == IF Truthy(metronomeBPM) THEN metronomeBPM ELSE 100

\* const finalBPM = metronomeBPM || 120
FinalBPM(metronomeBPM) == IF Truthy(metronomeBPM) THEN metronomeBPM ELSE 120

\* 4 * (60 / finalBPM) seconds, in milliseconds
OneBarMs(finalBPM) == 240000 \div finalBPM

\* a variant of ApplyOffset that clamps a negative time to 0 instead of
\* removing the onset
ApplyOffsetClamped(onsets, finalBPM) ==
  [i \in 1..Len(onsets) |->
     [time |-> Max(0, onsets[i].time - OneBarMs(finalBPM)), index |-> onsets[i].index]]

\* a variant of ApplyOffset that shifts and keeps every onset
ApplyOffsetUnfiltered(onsets, finalBPM) ==
  [i \in 1..Len(onsets) |->
     [time |-> onsets[i].time - OneBarMs(finalBPM), index |-> onsets[i].index]]

\* subtract one bar from all onset times, then remove the negative ones
ApplyOffset(onsets, finalBPM) ==
  LET shifted == [i \in 1..Len(onsets) |->
                    [time |-> onsets[i].time - OneBarMs(finalBPM),
                     index |-> onsets[i].index]]
      Valid(o) == o.time >= 0
  IN SelectSeq(shifted, Valid)

\* const finalBPM = ...; if (offsetEnabled && finalBPM) { ... }
OffsetStage(refined, finalBPM, offsetEnabled) ==
  IF offsetEnabled /\ Truthy(finalBPM) THEN ApplyOffset(refined, finalBPM) ELSE refined

\* const result: AnalysisResult = { onsets, estimatedBPM: finalBPM, duration }
ResultOf(x, refined, metronomeBPM, offsetEnabled) ==
  [present |-> TRUE,
   onsets |-> OffsetStage(refined, FinalBPM(metronomeBPM), offsetEnabled),
   estimatedBPM |-> FinalBPM(metronomeBPM),
   duration |-> DurationOf(x)]

----------------------------------------------------------------------------
(* analyzeRhythm as a whole.  A run is the record of what one call       *)
(* computed: the raw onsets, the refiner's intermediate lists and the    *)
(* published result.                                                      *)

MergeWith(strong, fallback, minSep) ==
  [strong |-> strong, fallback |-> fallback, minSep |-> minSep,
   merged |-> MergeClose(strong, minSep)]

RefineWith(withE, eThresh, metronomeBPM) ==
  MergeWith(StrongOnsets(withE, eThresh), UsesFallback(withE, eThresh),
            MinSepSec(StrongOnsets(withE, eThresh), metronomeBPM))

\* step 2 of analyzeRhythm on the raw onsets with their local energies
Refinement(withE, metronomeBPM) ==
  RefineWith(withE, EnergyThreshold([i \in 1..Len(withE) |-> withE[i].e]), metronomeBPM)

RunWith(x, raw, ref, metronomeBPM, offsetEnabled) ==
  [buffer |-> x, raw |-> raw, strong |-> ref.strong, fallback |-> ref.fallback,
   minSep |-> ref.minSep, merged |-> ref.merged,
   metronomeBPM |-> metronomeBPM, offsetEnabled |-> offsetEnabled,
   result |-> ResultOf(x, Reindex(ref.merged), metronomeBPM, offsetEnabled)]

RunFrom(x, raw, metronomeBPM, offsetEnabled) ==
  RunWith(x, raw, Refinement(WithEnergy(raw, Energies(x, raw)), metronomeBPM),
          metronomeBPM, offsetEnabled)

AnalysisOf(x, metronomeBPM, offsetEnabled) ==
  RunFrom(x, DetectOnsets(x), metronomeBPM, offsetEnabled)

----------------------------------------------------------------------------
(* EnhancedRhythmGrid: gridData, the classification of the visible onsets *)

\* (estimatedBPM || 120): the tempo of the grid
GridBPM(estimatedBPM) == IF Truthy(estimatedBPM) THEN estimatedBPM ELSE 120

\* displayDuration = Math.min(duration, 8), in milliseconds
DisplayDuration(duration) == Min(duration, 8000)

\* Math.abs(time - Math.round(time / step) * step) for a grid step of
\* stepNum / bpm milliseconds, as the fraction [num, den] of a millisecond
GridDeviation(time, stepNum, bpm) ==
  [num |-> Abs(time * bpm - RoundDiv(time * bpm, stepNum) * stepNum), den |-> bpm]

\* secondsPerSixteenth = 60 / bpm / 4 = 15000 / bpm ms
SixteenthDeviation(time, bpm) == GridDeviation(time, 15000, bpm)

\* secondsPerTriplet = 60 / bpm / 3 = 20000 / bpm ms
TripletDeviation(time, bpm) == GridDeviation(time, 20000, bpm)

\* a variant of WithinTolerance that accepts a deviation of exactly 0.02 s
WithinToleranceInclusive(dev) == dev.num <= 20 * dev.den

\* deviation < tolerance, tolerance = 0.02 s
WithinTolerance(dev) == dev.num < 20 * dev.den

ClassifyWith(onset, sixteenthDeviation, tripletDeviation) ==
  [time |-> onset.time, index |-> onset.index,
   isOnBeat |-> WithinTolerance(sixteenthDeviation) \/ WithinTolerance(tripletDeviation),
   isOnSixteenth |-> WithinTolerance(sixteenthDeviation),
   isOnTriplet |-> WithinTolerance(tripletDeviation),
   sixteenthDeviation |-> sixteenthDeviation,
   tripletDeviation |-> tripletDeviation,
   bestAlignment |->
     IF sixteenthDeviation.num * tripletDeviation.den
          < tripletDeviation.num * sixteenthDeviation.den
     THEN "sixteenth" ELSE "triplet"]

ClassifyOnset(onset, bpm) ==
  ClassifyWith(onset, SixteenthDeviation(onset.time, bpm), TripletDeviation(onset.time, bpm))

\* visibleOnsets = onsets.filter(onset => onset.time <= displayDuration)
VisibleOnsets(onsets, displayDuration) ==
  LET Visible(o) == o.time <= displayDuration IN SelectSeq(onsets, Visible)

AnalyzedFrom(visible, bpm) == [i \in 1..Len(visible) |-> ClassifyOnset(visible[i], bpm)]

\* gridData.onsets; gridData is null without a result or without onsets
AnalyzedOnsets(res) ==
  IF ~res.present \/ Len(res.onsets) = 0 THEN <<>>
  ELSE AnalyzedFrom(VisibleOnsets(res.onsets, DisplayDuration(res.duration)),
                    GridBPM(res.estimatedBPM))

\* Math.ceil(a / b) for a >= 0, b > 0
CeilDiv(a, b) == (a + b - 1) \div b

\* the type of the grid line at a beat and a sixteenth of a measure
GridLineType(beat, sixteenth) ==
  IF sixteenth = 0 /\ beat = 0 THEN "measure"
  ELSE IF sixteenth = 0 THEN "beat"
  ELSE IF sixteenth = 2 THEN "eighth"
  ELSE "sixteenth"

\* time = (measure * 4 + beat) * secondsPerBeat + sixteenth *
\* secondsPerSixteenth, as the fraction [num, den] of a millisecond
GridLineTime(measure, beat, sixteenth, bpm) ==
  [num |-> (measure * 4 + beat) * 60000 + sixteenth * 15000, den |-> bpm]

GridLine(measure, beat, sixteenth, bpm) ==
  [time |-> GridLineTime(measure, beat, sixteenth, bpm),
   type |-> GridLineType(beat, sixteenth),
   subdivision |-> sixteenth, beat |-> beat + 1, measure |-> measure + 1]

\* a variant of SixteenthLoop that breaks only when time > displayDuration
RECURSIVE SixteenthLoopInclusive(_, _, _, _, _)
SixteenthLoopInclusive(measure, beat, sixteenth, displayDuration, bpm) ==
  IF sixteenth >= 4 THEN <<>>
  ELSE IF GridLineTime(measure, beat, sixteenth, bpm).num > displayDuration * bpm
       THEN <<>>
       ELSE <<GridLine(measure, beat, sixteenth, bpm)>>
              \o SixteenthLoopInclusive(measure, beat, sixteenth + 1, displayDuration, bpm)

\* the lines the innermost loop pushes from a sixteenth of a beat on:
\* if (time >= displayDuration) break
RECURSIVE SixteenthLoop(_, _, _, _, _)
SixteenthLoop(measure, beat, sixteenth, displayDuration, bpm) ==
  IF sixteenth >= 4 THEN <<>>
  ELSE IF GridLineTime(measure, beat, sixteenth, bpm).num >= displayDuration * bpm
       THEN <<>>
       ELSE <<GridLine(measure, beat, sixteenth, bpm)>>
              \o SixteenthLoop(measure, beat, sixteenth + 1, displayDuration, bpm)

\* the lines the loop over the 4 beats pushes from a beat of a measure on:
\* the break above leaves only the innermost loop
RECURSIVE BeatLoop(_, _, _, _)
BeatLoop(measure, beat, displayDuration, bpm) ==
  IF beat >= 4 THEN <<>>
  ELSE SixteenthLoop(measure, beat, 0, displayDuration, bpm)
         \o BeatLoop(measure, beat + 1, displayDuration, bpm)

\* the lines the loop over the measures pushes from a measure on
RECURSIVE MeasureLoop(_, _, _, _)
MeasureLoop(measure, totalMeasures, displayDuration, bpm) ==
  IF measure >= totalMeasures THEN <<>>
  ELSE BeatLoop(measure, 0, displayDuration, bpm)
         \o MeasureLoop(measure + 1, totalMeasures, displayDuration, bpm)

\* totalBeats = Math.ceil(displayDuration * beatsPerSecond)
TotalBeats(displayDuration, bpm) == CeilDiv(displayDuration * bpm, 60000)

\* totalMeasures = Math.ceil(totalBeats / 4)
TotalMeasures(displayDuration, bpm) == CeilDiv(TotalBeats(displayDuration, bpm), 4)

GridLinesWithin(displayDuration, bpm) ==
  MeasureLoop(0, TotalMeasures(displayDuration, bpm), displayDuration, bpm)

\* gridData.gridLines; gridData is null without a result or without onsets
GridLines(res) ==
  IF ~res.present \/ Len(res.onsets) = 0 THEN <<>>
  ELSE GridLinesWithin(DisplayDuration(res.duration), GridBPM(res.estimatedBPM))

\* sixteenthPosition of getMusicalWeight: the nearest sixteenth is number
\* nearest of the grid, the beat it lies in is floor(nearest / 4)
SixteenthPosition(time, bpm) ==
  LET nearest == RoundDiv(time * bpm, 15000)
      beatOf == nearest \div 4
  IN nearest - 4 * beatOf

WeightOfPosition(sixteenthPosition) ==
  CASE sixteenthPosition % 4 = 0 -> 50
    [] sixteenthPosition % 4 = 2 -> 40
    [] sixteenthPosition % 4 = 1 -> 30
    [] sixteenthPosition % 4 = 3 -> 25

\* a variant of GetMusicalWeight that takes the sixteenth at or before the
\* onset instead of the nearest one
GetMusicalWeightFloored(onset, bpm) ==
  IF ~onset.isOnBeat THEN 20
  ELSE WeightOfPosition(((onset.time * bpm) \div 15000) % 4)

\* getMusicalWeight of the marker of a classified onset
GetMusicalWeight(onset, bpm) ==
  IF ~onset.isOnBeat THEN 20
  ELSE WeightOfPosition(SixteenthPosition(onset.time, bpm))

\* the note markers: gridData.onsets.map(...), lineHeight = getMusicalWeight()
MarkersFrom(analyzed, bpm) ==
  [i \in 1..Len(analyzed) |->
     [onset |-> analyzed[i], lineHeight |-> GetMusicalWeight(analyzed[i], bpm)]]

NoteMarkers(res) ==
  IF ~res.present \/ Len(res.onsets) = 0 THEN <<>>
  ELSE MarkersFrom(AnalyzedOnsets(res), GridBPM(res.estimatedBPM))

\* (a / b) * 100 in JavaScript numbers: 0 / 0 is NaN
PercentOf(a, b) ==
  IF b = 0 THEN [nan |-> TRUE, num |-> 0, den |-> 1]
  ELSE [nan |-> FALSE, num |-> 100 * a, den |-> b]

\* how many of the analyzed onsets satisfy P
CountOnsets(analyzed, P(_)) == Len(SelectSeq(analyzed, P))

StatsOf(res, analyzed) ==
  LET OnBeat(a) == a.isOnBeat
      TripletOnly(a) == a.isOnTriplet /\ ~a.isOnSixteenth
      OffBeat(a) == ~a.isOnBeat
  IN [shown |-> TRUE,
      totalNotes |-> Len(res.onsets),
      classified |-> Len(analyzed),
      onBeatNotes |-> CountOnsets(analyzed, OnBeat),
      tripletNotes |-> CountOnsets(analyzed, TripletOnly),
      offBeatNotes |-> CountOnsets(analyzed, OffBeat),
      timingAccuracy |-> PercentOf(CountOnsets(analyzed, OnBeat), Len(analyzed))]

\* renderStats: nothing is rendered without a result, without onsets or
\* without gridData (gridData is null exactly in the first two cases)
RenderStats(res) ==
  IF ~res.present \/ Len(res.onsets) = 0 THEN [shown |-> FALSE]
  ELSE StatsOf(res, AnalyzedOnsets(res))

----------------------------------------------------------------------------
(* The inputs of the model *)

\* the length of a recording, in samples
BufLen == 56

\* the sample positions where a recording may hold a pick attack
ClickSlots == <<1, 11, 50>>

\* the magnitudes of an attack (0: none)
ClickLevels == {0, 8, 64}

\* the recording with magnitude f[k] at slot k and silence elsewhere
BufferOf(f) ==
  [p \in 1..BufLen |->
     IF \E k \in DOMAIN ClickSlots : ClickSlots[k] = p - 1
     THEN f[CHOOSE k \in DOMAIN ClickSlots : ClickSlots[k] = p - 1]
     ELSE 0]

Buffers == {BufferOf(f) : f \in [DOMAIN ClickSlots -> ClickLevels]}

\* the metronome settings passed to the analysis (the recorder keeps the
\* setting within 40..300); Null: no metronome
MetronomeBPMs == {Null, 60, 300}

\* detectOnsets on every recording of the model, computed once
DetectedOnsets == [x \in Buffers |-> DetectOnsets(x)]

\* one call of analyzeRhythm(buffer, metronomeBPM, offsetEnabled)
AnalyzeRhythm(x, metronomeBPM, offsetEnabled) ==
  RunFrom(x, DetectedOnsets[x], metronomeBPM, offsetEnabled)

----------------------------------------------------------------------------
(* GuitarRhythmAnalyzer and its recorder: the state *)

VARIABLES
  audioBuffer,      \* useState: the decoded buffer, or NoBuffer
  analysisResult,   \* useState: the published AnalysisResult, or NoResult
  isAnalyzing,      \* useState
  status,           \* useState: the status type and what the message reports
  isRecording,      \* the recorder's isRecording
  decoding,         \* recordings handed to handleRecordingComplete, not yet decoded
  timers,           \* pending setTimeout callbacks: the arguments of analyzeRhythm
  lastRun,          \* what the latest call of analyzeRhythm computed
  recordings,       \* the number of recordings started
  callArgs,         \* the arguments of a direct call of one function
  callResult,       \* what that call returned, once it has returned
  uploading,        \* files handed to processAudioFile, not yet decoded
  uploads,          \* the number of files selected
  analyzeClicks,    \* the number of clicks on the Analyze Rhythm button
  metronomeEnabled,     \* the recorder's useState
  metronomeEnabledRef,  \* the ref an effect keeps in step with the state
  metronomeIntervalRef, \* the id of the interval startMetronome made, or Null
  currentBeat,          \* currentBeatRef
  tickTimers,           \* the browser's active intervals: their ids and beats
  timersCreated,        \* the number of intervals made so far
  toggles,              \* the number of clicks on the metronome On/Off button
  patternsFile,         \* data/patterns.json: the stored list of patterns
  requests,             \* the requests to /api/patterns, with their progress
  pattern,              \* the editor's useState: the notes, on or off
  noteTypes,            \* useState: the duration of each cell
  fourBarMode,          \* useState
  isPlaying,            \* useState
  currentPosition,      \* useState: the playhead, -1 when there is none
  intervalRef,          \* the id of the playback interval, or Null
  currentIndexRef,      \* the step the next tick plays
  playTimers,           \* the browser's active playback intervals: their ids
  intervalsCreated,     \* the number of playback intervals made so far
  currentPatternId,     \* useState: the id of the loaded pattern, or Null
  currentPatternName,   \* useState: the name shown with the grid
  originalPatternName,  \* useState: the name of the loaded pattern
  savedPatterns,        \* the manager's useState: the list of saved patterns
  isOverwriting,        \* the manager's useState: the id being overwritten, or Null
  putsInFlight,         \* the patterns sent by overwritePattern, not yet answered
  toast,                \* the latest toast of the manager
  edits                 \* the number of clicks in the editor

\* the state of the component and its recorder
component == <<audioBuffer, analysisResult, isAnalyzing, status, isRecording,
               decoding, timers, lastRun, recordings>>

\* the state of a direct call
call == <<callArgs, callResult>>

\* the state of the upload area and of the action buttons
upload == <<uploading, uploads, analyzeClicks>>

\* the state of the recorder's metronome
metronome == <<metronomeEnabled, metronomeEnabledRef, metronomeIntervalRef,
               currentBeat, tickTimers, timersCreated, toggles>>

\* the state of the patterns API
store == <<patternsFile, requests>>

\* the state of the pattern editor and of its saved-patterns manager
editor == <<pattern, noteTypes, fourBarMode, isPlaying, currentPosition,
            intervalRef, currentIndexRef, playTimers, intervalsCreated,
            currentPatternId, currentPatternName, originalPatternName,
            savedPatterns, isOverwriting, putsInFlight, toast, edits>>

vars == <<component, call, upload, metronome, store, editor>>

\* the number of recordings of a session
MaxRecordings == 1

NoBuffer == [present |-> FALSE, data |-> <<>>]

NoResult == [present |-> FALSE, onsets |-> <<>>, estimatedBPM |-> Null, duration |-> 0]

NoCall == [op |-> "none"]

NotReturned == [done |-> FALSE]

Returned(v) == [done |-> TRUE, value |-> v]

NoRun == [buffer |-> <<>>, raw |-> <<>>, strong |-> <<>>, fallback |-> FALSE,
          minSep |-> [num |-> 0, den |-> 1], merged |-> <<>>,
          metronomeBPM |-> Null, offsetEnabled |-> FALSE, result |-> NoResult]

\* a name of the editor: null, undefined or a string, the string as the
\* list of its parts
NullName == [kind |-> "null", parts |-> <<>>]

UndefinedName == [kind |-> "undefined", parts |-> <<>>]

NameOf(parts) == [kind |-> "string", parts |-> parts]

\* `${name} (modified)`
ModifiedName(name) == NameOf(Append(name.parts, "(modified)"))

\* whether a name is truthy: a string that is not empty
NameGiven(name) == name.kind = "string" /\ name.parts # <<>>

\* new Array(size).fill(value)
ArrayOf(size, value) == [k \in 1..size |-> value]

\* a saved pattern of 32 cells with notes of the durations at the cells
SavedPattern(id, name, notes) ==
  [id |-> id, name |-> NameOf(<<name>>),
   pattern |-> [k \in 1..32 |-> (k - 1) \in DOMAIN notes],
   durations |-> [k \in 1..32 |-> IF (k - 1) \in DOMAIN notes THEN notes[k - 1] ELSE "16th"]]

\* the patterns the manager has loaded from the API when the session
\* starts: one of sixteenths, one with a quarter and an eighth
SavedAtStart ==
  <<SavedPattern(1, "A", (0 :> "16th") @@ (2 :> "16th")),
    SavedPattern(2, "B", (0 :> "quarter") @@ (4 :> "8th"))>>

\* the editor after its first render
EditorMounted ==
  /\ pattern = ArrayOf(64, FALSE)
  /\ noteTypes = ArrayOf(64, "16th")
  /\ fourBarMode = FALSE
  /\ isPlaying = FALSE
  /\ currentPosition = -1
  /\ intervalRef = Null
  /\ currentIndexRef = 0
  /\ playTimers = {}
  /\ intervalsCreated = 0
  /\ currentPatternId = Null
  /\ currentPatternName = NullName
  /\ originalPatternName = NullName
  /\ savedPatterns = SavedAtStart
  /\ isOverwriting = Null
  /\ putsInFlight = {}
  /\ toast = "none"
  /\ edits = 0

\* the state after the first render, over a stored list of patterns
MountedOver(stored) ==
  /\ audioBuffer = NoBuffer
  /\ analysisResult = NoResult
  /\ isAnalyzing = FALSE
  /\ status = [type |-> "none", note |-> "none"]
  /\ isRecording = FALSE
  /\ decoding = 0
  /\ timers = <<>>
  /\ lastRun = NoRun
  /\ recordings = 0
  /\ uploading = 0
  /\ uploads = 0
  /\ analyzeClicks = 0
  /\ metronomeEnabled = TRUE
  /\ metronomeEnabledRef = TRUE
  /\ metronomeIntervalRef = Null
  /\ currentBeat = 0
  /\ tickTimers = {}
  /\ timersCreated = 0
  /\ toggles = 0
  /\ patternsFile = stored
  /\ requests = <<>>
  /\ EditorMounted

\* the state after the first render, with no pattern stored
Mounted == MountedOver(<<>>)

Init ==
  /\ Mounted
  /\ callArgs = NoCall
  /\ callResult = NotReturned

\* the refs and the intervals of the metronome, as one record
MetronomeNow ==
  [enabledRef |-> metronomeEnabledRef, intervalRef |-> metronomeIntervalRef,
   beat |-> currentBeat, timers |-> tickTimers, created |-> timersCreated]

\* window.clearInterval(id)
ClearInterval(intervals, id) == {t \in intervals : t.id # id}

\* startMetronome: stop an existing interval, return when disabled, else
\* play beat 1 and keep the id of a new interval in metronomeIntervalRef
StartMetronome(m) ==
  LET stopped == IF Truthy(m.intervalRef)
                 THEN [m EXCEPT !.timers = ClearInterval(@, m.intervalRef),
                                !.intervalRef = Null]
                 ELSE m
  IN IF ~stopped.enabledRef THEN stopped
     ELSE [stopped EXCEPT !.beat = 1,
                          !.created = @ + 1,
                          !.timers = @ \cup {[id |-> stopped.created + 1, beat |-> 1]},
                          !.intervalRef = stopped.created + 1]

\* a variant of StopMetronome that forgets the id without clearing the
\* interval
StopMetronomeRefOnly(m) == [m EXCEPT !.intervalRef = Null, !.beat = 0]

\* stopMetronome
StopMetronome(m) ==
  IF m.intervalRef # Null
  THEN [m EXCEPT !.timers = ClearInterval(@, m.intervalRef),
                 !.intervalRef = Null, !.beat = 0]
  ELSE [m EXCEPT !.beat = 0]

\* the effect that keeps metronomeEnabledRef in step with the state
SyncEnabledRef(enabled, m) == [m EXCEPT !.enabledRef = enabled]

\* the body of the lifecycle effect, for the rendered isRecording and
\* metronomeEnabled
LifecycleEffect(recording, enabled, m) ==
  IF recording /\ enabled
  THEN IF m.intervalRef = Null THEN StartMetronome(m) ELSE m
  ELSE IF m.intervalRef # Null THEN StopMetronome(m) ELSE m

\* the cleanup of the lifecycle effect, run when its dependencies change
LifecycleCleanup(m) == IF m.intervalRef # Null THEN StopMetronome(m) ELSE m

\* the cleanup of the effect on [stream], run when the stream changes
StreamCleanup(m) ==
  IF m.intervalRef # Null
  THEN [m EXCEPT !.timers = ClearInterval(@, m.intervalRef), !.intervalRef = Null]
  ELSE m

\* the refs and the intervals become those of the record
MetronomeBecomes(m) ==
  /\ metronomeEnabledRef' = m.enabledRef
  /\ metronomeIntervalRef' = m.intervalRef
  /\ currentBeat' = m.beat
  /\ tickTimers' = m.timers
  /\ timersCreated' = m.created

\* startRecording once getUserMedia resolved: setStream, setIsRecording(true)
\* and handleStatusUpdate(message, 'recording'), by which a new recording
\* clears the buffer and the result; then the effects of that render (the
\* cleanups of the lifecycle effect and of the effect on [stream], then the
\* body of the lifecycle effect)
StartRecordingUpTo(limit) ==
  /\ ~isRecording
  /\ recordings < limit
  /\ isRecording' = TRUE
  /\ recordings' = recordings + 1
  /\ status' = [type |-> "recording", note |-> "recording"]
  /\ analysisResult' = NoResult
  /\ audioBuffer' = NoBuffer
  /\ MetronomeBecomes(LifecycleEffect(TRUE, metronomeEnabled,
                        StreamCleanup(LifecycleCleanup(MetronomeNow))))
  /\ UNCHANGED <<isAnalyzing, decoding, timers, lastRun, call, upload,
                 metronomeEnabled, toggles, store, editor>>

\* a click on Start Recording, within the recordings of a session
StartRecording == StartRecordingUpTo(MaxRecordings)

\* stopRecording: setIsRecording(false) and stopMetronome(), then the
\* effects of that render; the media recorder stops and its onstop handler
\* hands the blob to handleRecordingComplete, which starts decoding it, and
\* sets the stream to null, which runs the cleanup of the effect on [stream]
StopRecording ==
  /\ isRecording
  /\ isRecording' = FALSE
  /\ decoding' = decoding + 1
  /\ MetronomeBecomes(StreamCleanup(
        LifecycleEffect(FALSE, metronomeEnabled,
                        LifecycleCleanup(StopMetronome(MetronomeNow)))))
  /\ UNCHANGED <<audioBuffer, analysisResult, isAnalyzing, status, timers,
                 lastRun, recordings, call, upload, metronomeEnabled, toggles, store, editor>>

\* handleRecordingComplete after decodeAudioData resolved: publish the
\* buffer and schedule analyzeRhythm(buffer, metronomeBPM, offsetEnabled);
\* metronomeBPM and offsetEnabled are arguments the caller supplies
DecodeDone(x, metronomeBPM, offsetEnabled) ==
  /\ decoding > 0
  /\ decoding' = decoding - 1
  /\ audioBuffer' = [present |-> TRUE, data |-> x]
  /\ status' = [type |-> "analyzing", note |-> "complete"]
  /\ timers' = Append(timers, [buffer |-> x, metronomeBPM |-> metronomeBPM,
                               offsetEnabled |-> offsetEnabled])
  /\ UNCHANGED <<analysisResult, isAnalyzing, isRecording, lastRun, recordings, call, upload, metronome, store, editor>>

\* handleRecordingComplete when decoding throws
DecodeFails ==
  /\ decoding > 0
  /\ decoding' = decoding - 1
  /\ status' = [type |-> "ready", note |-> "error"]
  /\ UNCHANGED <<audioBuffer, analysisResult, isAnalyzing, isRecording, timers,
                 lastRun, recordings, call, upload, metronome, store, editor>>

\* the status analyzeRhythm reports for its result
StatusOf(run) ==
  IF Len(run.result.onsets) = 0 THEN [type |-> "ready", note |-> "no notes"]
  ELSE [type |-> "ready",
        note |-> IF Truthy(run.metronomeBPM) THEN "metronome" ELSE "estimated"]

Publish(run) ==
  /\ analysisResult' = run.result
  /\ status' = StatusOf(run)
  /\ lastRun' = run

\* the timer fires: analyzeRhythm runs to its end on the buffer it was
\* scheduled with (setIsAnalyzing(true) ... finally setIsAnalyzing(false))
TimerFires ==
  /\ Len(timers) > 0
  /\ timers' = Tail(timers)
  /\ Publish(AnalyzeRhythm(Head(timers).buffer, Head(timers).metronomeBPM,
                           Head(timers).offsetEnabled))
  /\ isAnalyzing' = FALSE
  /\ UNCHANGED <<audioBuffer, isRecording, decoding, recordings, call, upload, metronome, store, editor>>

Next ==
  \/ StartRecording
  \/ StopRecording
  \/ \E x \in Buffers, b \in MetronomeBPMs, o \in BOOLEAN : DecodeDone(x, b, o)
  \/ DecodeFails
  \/ TimerFires

Spec == Init /\ [][Next]_vars

----------------------------------------------------------------------------
(* Properties of the published result (specification Spec) *)

\* the onsets of the published result
Published == analysisResult.onsets

\* the refined onsets of the run that published the result (line 232)
Refined == Reindex(lastRun.merged)

\* C1: the published onset list is strictly ascending in time and no two
\* of its entries carry the same index.
C1_StrictlyAscending ==
  analysisResult.present =>
    \A i \in 1..Len(Published) : \A j \in 1..Len(Published) :
      i < j => /\ Published[i].time < Published[j].time
               /\ Published[i].index # Published[j].index

\* a result with several onsets, published by a run whose refiner removed
\* a raw onset
C1_Witness ==
  /\ analysisResult.present
  /\ Len(Published) >= 2
  /\ Len(lastRun.merged) < Len(lastRun.raw)

\* C4: when a metronome tempo is passed to the analysis, the published
\* BPM is exactly that tempo.
C4_MetronomeVerbatim ==
  (analysisResult.present /\ Truthy(lastRun.metronomeBPM)) =>
    analysisResult.estimatedBPM = lastRun.metronomeBPM

\* a result published for a recording with onsets and a metronome at 300,
\* a tempo estimateTempo would halve
C4_Witness ==
  /\ analysisResult.present
  /\ lastRun.metronomeBPM = 300
  /\ Len(lastRun.raw) >= 2
  /\ analysisResult.estimatedBPM = 300

\* C5: without a metronome tempo and with at least two refined onsets, the
\* published BPM is the value estimateTempo computes from these onsets.
C5_EstimatedWhenNoMetronome ==
  (analysisResult.present /\ ~Truthy(lastRun.metronomeBPM) /\ Len(Refined) >= 2) =>
    analysisResult.estimatedBPM = EstimateTempo(Refined)

\* C8: in every published result the onset at position i (from 0) has
\* index i, also after the -1 bar offset removed onsets.
C8_IndexIsPosition ==
  analysisResult.present =>
    \A i \in 1..Len(Published) : Published[i].index = i - 1

\* the bar the offset subtracts, computed from the published tempo
C9_Bar == 240000 \div analysisResult.estimatedBPM

\* C9: every published onset time lies in 0..duration; with the offset the
\* published onsets are exactly the refined onsets that are at least one
\* bar in, each moved back by one bar: none is clamped to 0 and kept.
C9_TimesWithinDuration ==
  analysisResult.present =>
    /\ \A i \in 1..Len(Published) :
         /\ 0 <= Published[i].time
         /\ Published[i].time <= analysisResult.duration
    /\ lastRun.offsetEnabled =>
         /\ \A i \in 1..Len(Published) :
              \E j \in 1..Len(Refined) : Refined[j].time = Published[i].time + C9_Bar
         /\ \A j \in 1..Len(Refined) :
              (Refined[j].time >= C9_Bar) <=>
                (\E i \in 1..Len(Published) : Published[i].time + C9_Bar = Refined[j].time)
         /\ Len(Published) = Cardinality({j \in 1..Len(Refined) : Refined[j].time >= C9_Bar})

\* a result whose offset removed one onset (it fell before 0) and kept
\* another
C9_Witness ==
  /\ analysisResult.present
  /\ lastRun.offsetEnabled
  /\ Len(Published) >= 1
  /\ Len(Published) < Len(Refined)

\* C12: when a run detects no onset, the published result has no
\* estimatedBPM (null).
C12_NoTempoWithoutOnsets ==
  (analysisResult.present /\ Len(lastRun.raw) = 0) =>
    analysisResult.estimatedBPM = Null

\* the tempo the grid uses for the published result
C13_GridTempo == GridBPM(analysisResult.estimatedBPM)

\* C13: without a metronome tempo and with fewer than two onsets, the
\* tempo used for the grid is 120 BPM.
C13_DefaultTempo ==
  (analysisResult.present /\ ~Truthy(lastRun.metronomeBPM) /\ Len(Refined) < 2) =>
    C13_GridTempo = 120

\* a result with a single onset, published without a metronome tempo
C13_Witness ==
  /\ analysisResult.present
  /\ lastRun.metronomeBPM = Null
  /\ Len(Refined) = 1
  /\ Len(Published) = 1
  /\ C13_GridTempo = 120

----------------------------------------------------------------------------
(* The refiner on its own: step 2 of analyzeRhythm applied to a list of  *)
(* raw onsets with their local energies (specification SpecRefine)       *)

\* the largest number of raw onsets of a call
MaxOnsets == 3

\* the gaps between consecutive raw onsets, in ms: the detector keeps
\* peaks DetectMinSep samples apart and moves each by at most RefineWin
OnsetGaps == {160, 200, 500, 1400}

\* the local energies of a raw onset, in units of 1 / EnergyDen
EnergyLevels == {6, 30, 36}

\* the time of the first raw onset, in ms
FirstOnset == TimeOfSample(1)

RECURSIVE TimeAfter(_, _)
\* the time of onset i of a list that starts at FirstOnset with gaps g
TimeAfter(g, i) == IF i = 1 THEN FirstOnset ELSE TimeAfter(g, i - 1) + g[i - 1]

\* the raw onsets with gaps g and energies e, as detectOnsets numbers them
RawWithEnergy(g, e) ==
  [i \in 1..Len(e) |-> [time |-> TimeAfter(g, i), index |-> i - 1, e |-> e[i]]]

RawLists(n) ==
  {RawWithEnergy(g, e) : g \in [1..(n - 1) -> OnsetGaps], e \in [1..n -> EnergyLevels]}

\* how many onsets of the energies e have level v
CountLevel(e, v) == Cardinality({i \in DOMAIN e : e[i] = v})

\* lists of FallbackKeep + 1 raw onsets, 500 ms apart, that the energy
\* threshold rejects as a whole: four weak, three medium and two strong
\* onsets in every order
LongLists ==
  {RawWithEnergy([i \in 1..FallbackKeep |-> 500], e) :
     e \in {f \in [1..(FallbackKeep + 1) -> EnergyLevels] :
              CountLevel(f, 6) = 4 /\ CountLevel(f, 36) = 2}}

RefineCalls ==
  {[op |-> "refine", withE |-> w, metronomeBPM |-> b] :
     w \in UNION {RawLists(n) : n \in 0..MaxOnsets}, b \in MetronomeBPMs}
  \cup {[op |-> "refine", withE |-> w, metronomeBPM |-> Null] : w \in LongLists}

InitRefine ==
  /\ Mounted
  /\ callArgs \in RefineCalls
  /\ callResult = NotReturned

\* the call of the refiner returns
RefineOnsets ==
  /\ callArgs.op = "refine"
  /\ ~callResult.done
  /\ callResult' = Returned(Refinement(callArgs.withE, callArgs.metronomeBPM))
  /\ UNCHANGED <<component, callArgs, upload, metronome, store, editor>>

NextRefine == RefineOnsets

SpecRefine == InitRefine /\ [][NextRefine]_vars

\* C2: after the forward merge every two consecutive kept onsets are at
\* least minSep apart, minSep being the separation computed for the call;
\* this holds also where a kept onset was replaced by a later, stronger one.
C2_MergedSeparation ==
  callResult.done =>
    LET merged == callResult.value.merged
        minSep == callResult.value.minSep
    IN \A i \in 1..(Len(merged) - 1) :
         (merged[i + 1].time - merged[i].time) * minSep.den >= minSep.num

\* a call where the second strong onset, stronger than the first and less
\* than minSep after it, took its place, and a later onset was appended
C2_Witness ==
  /\ callResult.done
  /\ Len(callResult.value.merged) >= 2
  /\ Len(callResult.value.strong) >= 3
  /\ callResult.value.merged[1] = callResult.value.strong[2]
  /\ callResult.value.strong[1].e < callResult.value.strong[2].e
  /\ (callResult.value.strong[2].time - callResult.value.strong[1].time)
       * callResult.value.minSep.den < callResult.value.minSep.num

\* C3: the refiner never turns a non-empty list of raw onsets into an
\* empty list.
C3_NeverEmpties ==
  (callResult.done /\ Len(callArgs.withE) > 0) =>
    Len(Reindex(callResult.value.merged)) > 0

\* a call where no raw onset reached the energy threshold and the
\* fallback kept the strongest ones
C3_Witness ==
  /\ callResult.done
  /\ Len(callArgs.withE) >= 2
  /\ callResult.value.fallback
  /\ Len(callResult.value.merged) > 0

\* whether m is the upper median of the numbers v[1..n]: it is one of
\* them, at most half of them are below it and more than half are at most it
IsUpperMedian(m, v) ==
  /\ \E i \in DOMAIN v : v[i] = m
  /\ Cardinality({i \in DOMAIN v : v[i] < m}) <= Len(v) \div 2
  /\ Cardinality({i \in DOMAIN v : v[i] <= m}) > Len(v) \div 2

\* the gaps between the strong onsets of the call
C18_Gaps ==
  [i \in 1..(Len(callResult.value.strong) - 1) |->
     callResult.value.strong[i + 1].time - callResult.value.strong[i].time]

\* whether the minimum separation of the call is a / b ms
C18_MinSepIs(a, b) == callResult.value.minSep.num * b = a * callResult.value.minSep.den

\* C18: the minimum separation is, with at least 3 strong onsets, 0.45
\* times their median gap clamped to 0.18..0.60 s whatever the metronome
\* tempo; with fewer and a metronome tempo it is max(0.18, 0.45 * 60 /
\* (2 * BPM)); otherwise it is 0.18 s; it is never below 0.18 s.
C18_MinSepByCases ==
  (callResult.done /\ callArgs.op = "refine") =>
    /\ Len(callResult.value.strong) >= 3 =>
         \E m \in {C18_Gaps[i] : i \in DOMAIN C18_Gaps} :
           /\ IsUpperMedian(m, C18_Gaps)
           /\ 9 * m < 20 * 180 => C18_MinSepIs(180, 1)
           /\ 9 * m > 20 * 600 => C18_MinSepIs(600, 1)
           /\ (9 * m >= 20 * 180 /\ 9 * m <= 20 * 600) => C18_MinSepIs(9 * m, 20)
    /\ (Len(callResult.value.strong) < 3 /\ Truthy(callArgs.metronomeBPM)) =>
         /\ 13500 > 180 * callArgs.metronomeBPM => C18_MinSepIs(13500, callArgs.metronomeBPM)
         /\ 13500 <= 180 * callArgs.metronomeBPM => C18_MinSepIs(180, 1)
    /\ (Len(callResult.value.strong) < 3 /\ ~Truthy(callArgs.metronomeBPM)) =>
         C18_MinSepIs(180, 1)
    /\ callResult.value.minSep.num >= 180 * callResult.value.minSep.den

\* a call with 3 strong onsets and a metronome at 60, whose separation
\* is 0.45 * 200 ms clamped to 180 ms and not the 225 ms of the tempo
C18_Witness ==
  /\ callResult.done
  /\ callArgs.metronomeBPM = 60
  /\ Len(callResult.value.strong) = 3
  /\ IsUpperMedian(200, C18_Gaps)
  /\ C18_MinSepIs(180, 1)

\* the kept list after the first i strong onsets of the call
C19_Kept(i) == MergeClose(SubSeq(callResult.value.strong, 1, i), callResult.value.minSep)

\* whether onset o lies less than the minimum separation after onset last
C19_Within(o, last) ==
  (o.time - last.time) * callResult.value.minSep.den < callResult.value.minSep.num

\* what the merge is to make of the kept list prev and the next onset o
C19_StepOk(prev, o, cur) ==
  IF Len(prev) = 0 THEN cur = <<o>>
  ELSE IF C19_Within(o, prev[Len(prev)])
  THEN /\ Len(cur) = Len(prev)
       /\ \A k \in 1..(Len(prev) - 1) : cur[k] = prev[k]
       /\ o.e > prev[Len(prev)].e => cur[Len(cur)] = o
       /\ o.e <= prev[Len(prev)].e => cur[Len(cur)] = prev[Len(prev)]
  ELSE /\ Len(cur) = Len(prev) + 1
       /\ \A k \in 1..Len(prev) : cur[k] = prev[k]
       /\ cur[Len(cur)] = o

\* C19: in the forward merge, a strong onset within minSep of the last
\* kept one leaves exactly one of the two, the one of higher energy (the
\* earlier one on a tie), in the same place; any other onset is
\* appended.  Every time in the output is the time of an input onset.
C19_MergeKeepsStronger ==
  (callResult.done /\ callArgs.op = "refine") =>
    /\ \A i \in 1..Len(callResult.value.strong) :
         C19_StepOk(C19_Kept(i - 1), callResult.value.strong[i], C19_Kept(i))
    /\ callResult.value.merged = C19_Kept(Len(callResult.value.strong))
    /\ \A k \in 1..Len(callResult.value.merged) :
         \E i \in 1..Len(callArgs.withE) :
           callArgs.withE[i].time = callResult.value.merged[k].time

\* a call where the second strong onset ties with the first, less than
\* minSep before it, and the first is kept; a third onset is appended
C19_Witness ==
  /\ callResult.done
  /\ Len(callResult.value.strong) = 3
  /\ callResult.value.strong[1].e = callResult.value.strong[2].e
  /\ C19_Within(callResult.value.strong[2], callResult.value.strong[1])
  /\ Len(callResult.value.merged) = 2
  /\ callResult.value.merged[1] = callResult.value.strong[1]
  /\ callResult.value.merged[2] = callResult.value.strong[3]

\* the energies of the raw onsets of the call
C20_Energies == [i \in 1..Len(callArgs.withE) |-> callArgs.withE[i].e]

\* whether median + 2 * MAD of the energies is above every energy
C20_AllRejected ==
  \E med \in {C20_Energies[i] : i \in DOMAIN C20_Energies} :
    /\ IsUpperMedian(med, C20_Energies)
    /\ \E mad \in {Abs(C20_Energies[i] - med) : i \in DOMAIN C20_Energies} :
         /\ IsUpperMedian(mad, [i \in DOMAIN C20_Energies |-> Abs(C20_Energies[i] - med)])
         /\ \A i \in DOMAIN C20_Energies : C20_Energies[i] < med + 2 * mad

\* C20: when median + 2 * MAD rejects every onset of a non-empty list of N
\* raw onsets, the strong onsets are min(8, N) of the raw onsets, none
\* weaker than a raw onset left out, in ascending time.
C20_FallbackTopEight ==
  (callResult.done /\ callArgs.op = "refine" /\ Len(callArgs.withE) > 0 /\ C20_AllRejected) =>
    LET strong == callResult.value.strong
        raw == callArgs.withE
        Kept(i) == \E k \in 1..Len(strong) : strong[k] = raw[i]
    IN /\ Len(strong) = Min(8, Len(raw))
       /\ \A k \in 1..Len(strong) : \E i \in 1..Len(raw) : strong[k] = raw[i]
       /\ \A k \in 1..(Len(strong) - 1) : strong[k].time < strong[k + 1].time
       /\ \A i \in 1..Len(raw) : \A j \in 1..Len(raw) :
            (Kept(i) /\ ~Kept(j)) => raw[i].e >= raw[j].e

\* a call with 9 raw onsets, all rejected, whose weakest onsets include
\* the first: the strong onsets are 8 and the last raw onset is among them
C20_Witness ==
  /\ callResult.done
  /\ Len(callArgs.withE) = 9
  /\ C20_AllRejected
  /\ callResult.value.fallback
  /\ Len(callResult.value.strong) = 8
  /\ callArgs.withE[9].e > callArgs.withE[1].e
  /\ callResult.value.strong[8] = callArgs.withE[9]

----------------------------------------------------------------------------
(* estimateTempo on its own (specification SpecTempo) *)

\* the largest number of onsets of a call of estimateTempo
MaxTempoOnsets == 3

\* the gaps between consecutive onsets, in ms
TempoGaps == {250, 290, 300, 500, 1500, 1540, 2000, 6000}

RECURSIVE OnsetsFrom(_, _)
\* the onsets that start at time t and follow each other with gaps g
OnsetsFrom(t, g) ==
  IF Len(g) = 0 THEN <<[time |-> t, index |-> 0]>>
  ELSE LET front == OnsetsFrom(t, SubSeq(g, 1, Len(g) - 1))
       IN Append(front, [time |-> front[Len(front)].time + g[Len(g)],
                         index |-> Len(front)])

TempoLists ==
  {<<>>} \cup UNION {{OnsetsFrom(0, g) : g \in [1..(n - 1) -> TempoGaps]} :
                       n \in 1..MaxTempoOnsets}

InitTempo ==
  /\ Mounted
  /\ callArgs \in {[op |-> "tempo", onsets |-> s] : s \in TempoLists}
  /\ callResult = NotReturned

\* the call of estimateTempo returns
EstimateTempoReturns ==
  /\ callArgs.op = "tempo"
  /\ ~callResult.done
  /\ callResult' = Returned(EstimateTempo(callArgs.onsets))
  /\ UNCHANGED <<component, callArgs, upload, metronome, store, editor>>

NextTempo == EstimateTempoReturns

SpecTempo == InitTempo /\ [][NextTempo]_vars

\* the gaps of the onsets of the call
C6_Gaps == {callArgs.onsets[i + 1].time - callArgs.onsets[i].time :
              i \in 1..(Len(callArgs.onsets) - 1)}

\* how many gaps of the call satisfy P
C6_Count(P(_)) ==
  Cardinality({i \in 1..(Len(callArgs.onsets) - 1) :
                 P(callArgs.onsets[i + 1].time - callArgs.onsets[i].time)})

\* the median gap: more than half of the gaps are at most m, and at most
\* half of them are below m
C6_IsMedian(m) ==
  LET half == (Len(callArgs.onsets) - 1) \div 2
      Below(v) == v < m
      AtMost(v) == v <= m
  IN m \in C6_Gaps /\ C6_Count(Below) <= half /\ C6_Count(AtMost) > half

\* r is 60 s / m rounded to the nearest integer (a half rounds up)
C6_IsRounded(r, m) == 2 * r * m - m <= 120000 /\ 120000 < 2 * r * m + m

\* h is r / 2 rounded to the nearest integer (a half rounds up)
C6_IsHalf(h, r) == 2 * h - 1 <= r /\ r < 2 * h + 1

\* C6: estimateTempo applies one octave correction to the raw estimate
\* round(60 / median gap): below 40 it is doubled, above 200 it is halved
\* and rounded, from 40 to 200 it is returned unchanged (30 gives 60, 240
\* gives 120).
C6_OctaveCorrection ==
  (callResult.done /\ Len(callArgs.onsets) >= 2) =>
    \E m \in C6_Gaps : \E r \in 0..1000 :
      /\ C6_IsMedian(m)
      /\ C6_IsRounded(r, m)
      /\ r < 40 => callResult.value = 2 * r
      /\ r > 200 => C6_IsHalf(callResult.value, r)
      /\ (r >= 40 /\ r <= 200) => callResult.value = r
      /\ r = 30 => callResult.value = 60
      /\ r = 240 => callResult.value = 120

\* a call whose raw estimate is 240 (onsets 250 ms apart) and returns 120
C6_Witness ==
  /\ callResult.done
  /\ Len(callArgs.onsets) = 2
  /\ callArgs.onsets[2].time - callArgs.onsets[1].time = 250
  /\ callResult.value = 120

\* C7: for a strictly ascending list of at least two onsets, estimateTempo
\* returns a positive integer from 40 to 300.
C7_TempoInRange ==
  (callResult.done /\ Len(callArgs.onsets) >= 2) =>
    (callResult.value >= 40 /\ callResult.value <= 300)

----------------------------------------------------------------------------
(* The grid's classification of one onset (specification SpecGrid) *)

\* the latest onset time of a call, in ms
MaxGridTime == 300

\* the tempos of the grid
GridBPMs == {40, 77, 120, 300}

GridCalls ==
  {[op |-> "grid",
    result |-> [present |-> TRUE, onsets |-> <<[time |-> t, index |-> 0]>>,
                estimatedBPM |-> b, duration |-> MaxGridTime]] :
     t \in 0..MaxGridTime, b \in GridBPMs}

\* the onset times and the durations of the results whose statistics are
\* rendered, in ms: some onsets lie after the 8 s the grid displays
StatsTimes == {0, 20, 125, 8000, 8500}

StatsDurations == {1000, 9000}

\* the ascending onset lists of at most two onsets
StatsLists ==
  {<<>>} \cup {<<[time |-> t, index |-> 0]>> : t \in StatsTimes}
         \cup {<<[time |-> p[1], index |-> 0], [time |-> p[2], index |-> 1]>> :
                 p \in {q \in StatsTimes \X StatsTimes : q[1] < q[2]}}

StatsResults(d) ==
  {[present |-> TRUE, onsets |-> l, estimatedBPM |-> b, duration |-> d] :
     l \in {k \in StatsLists : \A i \in 1..Len(k) : k[i].time <= d}, b \in GridBPMs}

StatsCalls ==
  {[op |-> "stats", result |-> r] : r \in UNION {StatsResults(d) : d \in StatsDurations}}

\* the results whose note markers are rendered: those of GridCalls
MarkerCalls == {[op |-> "marker", result |-> c.result] : c \in GridCalls}

\* the durations of the results whose grid lines are generated, in ms: on
\* a sixteenth of some tempo, between two, at the 8 s displayed and beyond
LinesDurations == {300, 1010, 8000, 9000}

\* the results whose grid lines are generated, also without a tempo
LinesCalls ==
  {[op |-> "lines",
    result |-> [present |-> TRUE, onsets |-> <<[time |-> 0, index |-> 0]>>,
                estimatedBPM |-> b, duration |-> d]] :
     b \in GridBPMs \cup {Null}, d \in LinesDurations}

InitGrid ==
  /\ Mounted
  /\ callArgs \in GridCalls \cup StatsCalls \cup MarkerCalls \cup LinesCalls
  /\ callResult = NotReturned

\* gridData is computed for the result
GridDataComputed ==
  /\ callArgs.op = "grid"
  /\ ~callResult.done
  /\ callResult' = Returned(AnalyzedOnsets(callArgs.result))
  /\ UNCHANGED <<component, callArgs, upload, metronome, store, editor>>

\* renderStats is evaluated for the result
StatsRendered ==
  /\ callArgs.op = "stats"
  /\ ~callResult.done
  /\ callResult' = Returned(RenderStats(callArgs.result))
  /\ UNCHANGED <<component, callArgs, upload, metronome, store, editor>>

\* the note markers are rendered for the result
MarkersRendered ==
  /\ callArgs.op = "marker"
  /\ ~callResult.done
  /\ callResult' = Returned(NoteMarkers(callArgs.result))
  /\ UNCHANGED <<component, callArgs, upload, metronome, store, editor>>

\* the grid lines of gridData are generated for the result
GridLinesGenerated ==
  /\ callArgs.op = "lines"
  /\ ~callResult.done
  /\ callResult' = Returned(GridLines(callArgs.result))
  /\ UNCHANGED <<component, callArgs, upload, metronome, store, editor>>

NextGrid ==
  GridDataComputed \/ StatsRendered \/ MarkersRendered \/ GridLinesGenerated

SpecGrid == InitGrid /\ [][NextGrid]_vars

\* whether a point of the grid with stepNum / bpm ms between its points
\* lies less than 20 ms from the time
C10_NearGrid(time, stepNum, bpm) ==
  \E k \in 0..((time * bpm) \div stepNum + 1) :
    /\ time * bpm - k * stepNum < 20 * bpm
    /\ k * stepNum - time * bpm < 20 * bpm

\* C10: the tolerance of the grid is strict: an onset is on the sixteenth
\* grid exactly when it lies less than 20 ms from a sixteenth position (at
\* a deviation of 0 it is, at a deviation of exactly 20 ms it is not), and
\* likewise for the triplet grid.
C10_StrictTolerance ==
  (callResult.done /\ callArgs.op = "grid") =>
    \A i \in 1..Len(callResult.value) :
      LET a == callResult.value[i]
          bpm == callArgs.result.estimatedBPM
      IN /\ a.isOnSixteenth <=> C10_NearGrid(a.time, 15000, bpm)
         /\ a.isOnTriplet <=> C10_NearGrid(a.time, 20000, bpm)
         /\ a.sixteenthDeviation.num = 0 => a.isOnSixteenth
         /\ a.tripletDeviation.num = 0 => a.isOnTriplet
         /\ a.sixteenthDeviation.num = 20 * a.sixteenthDeviation.den => ~a.isOnSixteenth
         /\ a.tripletDeviation.num = 20 * a.tripletDeviation.den => ~a.isOnTriplet

\* an onset 20 ms after the grid position at 0, at 120 BPM: its deviation
\* from both grids is exactly 20 ms and it is on neither
C10_Witness ==
  /\ callResult.done
  /\ callArgs.op = "grid"
  /\ callArgs.result.estimatedBPM = 120
  /\ Len(callResult.value) = 1
  /\ callResult.value[1].time = 20
  /\ callResult.value[1].sixteenthDeviation = [num |-> 20 * 120, den |-> 120]
  /\ ~callResult.value[1].isOnSixteenth
  /\ ~callResult.value[1].isOnTriplet

\* the weight the hierarchy gives the sixteenth whose number on the grid is k
C22_WeightOfSlot(k) ==
  IF k % 4 = 0 THEN 50 ELSE IF k % 4 = 2 THEN 40 ELSE IF k % 4 = 1 THEN 30 ELSE 25

\* C22: the musical weight of an onset is 20 exactly when the onset is
\* off-beat (on neither the sixteenth nor the triplet grid); otherwise it
\* depends only on round(time / secondsPerSixteenth) mod 4: 0 gives 50,
\* 2 gives 40, 1 gives 30, 3 gives 25. It is always one of 20, 25, 30, 40, 50.
C22_WeightBySlot ==
  (callResult.done /\ callArgs.op = "marker") =>
    \A i \in 1..Len(callResult.value) :
      LET m == callResult.value[i]
          bpm == callArgs.result.estimatedBPM
          offBeat == ~m.onset.isOnSixteenth /\ ~m.onset.isOnTriplet
      IN /\ m.lineHeight \in {20, 25, 30, 40, 50}
         /\ m.lineHeight = 20 <=> offBeat
         /\ ~offBeat =>
              m.lineHeight = C22_WeightOfSlot(RoundDiv(m.onset.time * bpm, 15000))

\* the marker of an onset on the triplet grid only, nearest to the last
\* sixteenth of a beat, has the weight 25
C22_Witness ==
  /\ callResult.done
  /\ callArgs.op = "marker"
  /\ Len(callResult.value) = 1
  /\ callResult.value[1].onset.isOnTriplet
  /\ ~callResult.value[1].onset.isOnSixteenth
  /\ callResult.value[1].lineHeight = 25

\* the grid lines are those of the sixteenths 0, 1, ... in this order, each
\* labelled with its measure, beat, subdivision and type
C23_Labelled(lines) ==
  \A i \in 1..Len(lines) :
    LET l == lines[i]
    IN /\ l.time.num = 15000 * (i - 1)
       /\ l.subdivision = (i - 1) % 4
       /\ l.beat = (((i - 1) \div 4) % 4) + 1
       /\ l.measure = ((i - 1) \div 16) + 1
       /\ l.subdivision \in 0..3 /\ l.beat \in 1..4 /\ l.measure >= 1
       /\ l.type = "measure" <=> (l.beat = 1 /\ l.subdivision = 0)
       /\ l.type = "beat" <=> (l.beat # 1 /\ l.subdivision = 0)
       /\ l.type = "eighth" <=> l.subdivision = 2
       /\ l.type = "sixteenth" <=> l.subdivision \in {1, 3}

\* the cap of the grid lines of the call, times the tempo of the grid
C23_Cap ==
  DisplayDuration(callArgs.result.duration) * GridBPM(callArgs.result.estimatedBPM)

\* C23: the grid lines are exactly the sixteenth positions k *
\* secondsPerSixteenth that do not exceed min(duration, 8 s), ascending,
\* none missing or repeated, with subdivision 0..3, beat 1..4, measure >= 1
\* and the type measure / beat / eighth / sixteenth of their place.
C23_LinesUpToCap ==
  (callResult.done /\ callArgs.op = "lines") =>
    /\ C23_Labelled(callResult.value)
    /\ \A k \in 0..Len(callResult.value) :
         15000 * k <= C23_Cap <=> k < Len(callResult.value)

\* C23 as the code has it: the grid lines are exactly the sixteenth
\* positions strictly before min(duration, 8 s), ascending, none missing or
\* repeated, labelled as above; a position at the cap itself has no line.
C23_LinesBeforeCap ==
  (callResult.done /\ callArgs.op = "lines") =>
    /\ C23_Labelled(callResult.value)
    /\ \A k \in 0..Len(callResult.value) :
         15000 * k < C23_Cap <=> k < Len(callResult.value)

\* the lines of a result of 300 ms at 300 BPM, whose seventh sixteenth is at
\* 300 ms: six lines, the last at 250 ms
C23_Witness ==
  /\ callResult.done
  /\ callArgs.op = "lines"
  /\ callArgs.result.duration = 300
  /\ callArgs.result.estimatedBPM = 300
  /\ Len(callResult.value) = 6
  /\ callResult.value[6].time = [num |-> 75000, den |-> 300]
  /\ callResult.value[5].type = "beat"

\* C11: the timing accuracy the statistics report is a defined number from
\* 0 to 100, equal to 100 * onBeatNotes / (number of classified onsets),
\* and it is 0 when no onset is classified, also when the result has
\* onsets but none within the displayed window.
C11_AccuracyDefined ==
  (callResult.done /\ callArgs.op = "stats" /\ callResult.value.shown) =>
    LET st == callResult.value
    IN /\ ~st.timingAccuracy.nan
       /\ st.timingAccuracy.num >= 0
       /\ st.timingAccuracy.num <= 100 * st.timingAccuracy.den
       /\ st.timingAccuracy.num * st.classified = 100 * st.onBeatNotes * st.timingAccuracy.den
       /\ st.classified = 0 => st.timingAccuracy.num = 0

----------------------------------------------------------------------------
(* detectOnsets on its own (specification SpecDetect) *)

\* the longest silent buffer of a call, in samples
MaxSilentLen == 30

\* the length of the buffers with attacks, in samples
AttackBufLen == 40

\* the sample where the first attack starts
FirstAttackAt == {15}

\* the distance from the first attack to the second, in samples: 40 ms,
\* DetectMinSep and one more
SecondAttackAfter == {2, DetectMinSep, DetectMinSep + 1}

\* the magnitudes of the two samples of an attack (a click, or a click
\* that is sustained or rises for one more sample)
AttackShapes == ClickLevels \X ClickLevels

\* the buffer of AttackBufLen samples with shape f at a and shape g at a + d
AttackBuffer(a, d, f, g) ==
  [p \in 1..AttackBufLen |->
     IF p - 1 = a THEN f[1]
     ELSE IF p - 1 = a + 1 THEN Max(f[2], IF d = 1 THEN g[1] ELSE 0)
     ELSE IF p - 1 = a + d THEN g[1]
     ELSE IF p - 1 = a + d + 1 THEN g[2]
     ELSE 0]

\* the silent buffer of n samples
Silence(n) == [p \in 1..n |-> 0]

\* every buffer of fewer than 3 samples
ShortBuffers == UNION {[1..n -> ClickLevels] : n \in 0..2}

DetectBuffers ==
  {Silence(n) : n \in 0..MaxSilentLen} \cup ShortBuffers
    \cup {AttackBuffer(a, d, f, g) :
            a \in FirstAttackAt, d \in SecondAttackAfter,
            f \in AttackShapes, g \in AttackShapes}

InitDetect ==
  /\ Mounted
  /\ callArgs \in {[op |-> "detect", buffer |-> x] : x \in DetectBuffers}
  /\ callResult = NotReturned

\* the call of detectOnsets returns
DetectOnsetsReturns ==
  /\ callArgs.op = "detect"
  /\ ~callResult.done
  /\ callResult' = Returned(DetectOnsets(callArgs.buffer))
  /\ UNCHANGED <<component, callArgs, upload, metronome, store, editor>>

NextDetect == DetectOnsetsReturns

SpecDetect == InitDetect /\ [][NextDetect]_vars

\* C15: any two events detectOnsets emits are at least 180 ms apart in
\* their emitted (refined) times, so that two attacks 40 ms apart give at
\* most one event.
C15_EmittedSeparation ==
  callResult.done =>
    \A i \in 1..Len(callResult.value) : \A j \in 1..Len(callResult.value) :
      i < j => callResult.value[j].time - callResult.value[i].time >= 180

\* whether every sample of the buffer of the call is 0
C16_Silent == \A p \in 1..Len(callArgs.buffer) : callArgs.buffer[p] = 0

\* C16: detectOnsets returns the empty list for the empty buffer, for a
\* buffer of fewer than 3 samples and for a silent buffer of any length.
C16_EmptyForDegenerate ==
  (callResult.done /\ (Len(callArgs.buffer) < 3 \/ C16_Silent)) =>
    callResult.value = <<>>

\* a call on a silent buffer of MaxSilentLen samples, longer than the
\* window of the sliding statistics, has returned
C16_Witness ==
  /\ callResult.done
  /\ Len(callArgs.buffer) = MaxSilentLen
  /\ Len(callArgs.buffer) > StatWin
  /\ C16_Silent
  /\ callResult.value = <<>>

\* a call on a loud buffer of 2 samples has returned
C16_WitnessShort ==
  /\ callResult.done
  /\ Len(callArgs.buffer) = 2
  /\ callArgs.buffer[1] = 64
  /\ callResult.value = <<>>

\* the sample indices the peak picking accepts, in the order of the scan:
\* a peak of z at least DetectMinSep after the accepted peak before it
RECURSIVE C21_AcceptedFrom(_, _, _)
C21_AcceptedFrom(z, i, last) ==
  IF i >= Len(z) - 1 THEN <<>>
  ELSE IF IsPeak(z, i) /\ i - last >= DetectMinSep
       THEN <<i>> \o C21_AcceptedFrom(z, i + 1, i)
       ELSE C21_AcceptedFrom(z, i + 1, last)

C21_Accepted(env) ==
  C21_AcceptedFrom(ZScores(Novelty(env)), 1, 0 - DetectMinSep)

\* the sample index of an emitted event
C21_SampleOf(onset) == (onset.time * SampleRate) \div 1000

\* the samples 20 ms either side of sample i, clipped to the buffer
C21_Window(env, i) ==
  {j \in 0..(Len(env) - 1) : i - RefineWin <= j /\ j <= i + RefineWin}

\* whether the events are one per accepted peak, in the accepted order, each
\* at a sample of the window of its peak where the envelope is the largest
C21_RefinedWithin(env, accepted, events) ==
  /\ Len(events) = Len(accepted)
  /\ \A k \in 1..Len(accepted) :
       /\ C21_SampleOf(events[k]) \in C21_Window(env, accepted[k])
       /\ \A j \in C21_Window(env, accepted[k]) :
            At(env, j) <= At(env, C21_SampleOf(events[k]))

\* C21: for each peak detectOnsets accepts at sample i it emits exactly one
\* event, in the accepted order, at a sample within 20 ms of i (clipped to
\* the buffer) whose envelope value is the maximum of the envelope there.
C21_RefinedToEnvelopeMax ==
  callResult.done =>
    C21_RefinedWithin(Envelope(callArgs.buffer),
                      C21_Accepted(Envelope(callArgs.buffer)),
                      callResult.value)

\* a call has returned two events, the first of them moved by the
\* refinement from the sample of the accepted peak to a later one
C21_Witness ==
  /\ callResult.done
  /\ Len(callResult.value) = 2
  /\ Len(C21_Accepted(Envelope(callArgs.buffer))) = 2
  /\ C21_SampleOf(callResult.value[1]) >
       C21_Accepted(Envelope(callArgs.buffer))[1]

----------------------------------------------------------------------------
(* The component when the user records again (specification SpecRerecord) *)

\* the number of recordings of a session with a second take
MaxRerecordings == 2

\* the decoded contents of the takes: silence, and a click at the first slot
RerecordBuffers == {x \in Buffers : \A s \in 2..Len(ClickSlots) : At(x, ClickSlots[s]) = 0}

\* the Record button is disabled only while isAnalyzing, which no state
\* between two handlers has: a take can start while an earlier one is still
\* being decoded or its analysis is still scheduled
NextRerecord ==
  \/ StartRecordingUpTo(MaxRerecordings)
  \/ StopRecording
  \/ \E x \in RerecordBuffers, b \in MetronomeBPMs, o \in BOOLEAN : DecodeDone(x, b, o)
  \/ DecodeFails
  \/ TimerFires

SpecRerecord == Init /\ [][NextRerecord]_vars

\* C24: from the moment a new recording starts until it completes,
\* analysisResult stays null: the analysis of an earlier recording,
\* scheduled 100 ms after decoding, never publishes while a newer recording
\* is in progress.
C24_NoResultWhileRecording ==
  isRecording => ~analysisResult.present

----------------------------------------------------------------------------
(* The recorder and its metronome (specification SpecMetronome) *)

\* the number of clicks on the metronome On/Off button in a session
MaxToggles == 3

\* a click on the metronome On/Off button, which is enabled also while
\* recording: setMetronomeEnabled(!metronomeEnabled), then the effects of
\* that render (the cleanup of the lifecycle effect, the ref kept in step,
\* the body of the lifecycle effect)
MetronomeToggled ==
  /\ toggles < MaxToggles
  /\ toggles' = toggles + 1
  /\ metronomeEnabled' = ~metronomeEnabled
  /\ MetronomeBecomes(
       LifecycleEffect(isRecording, ~metronomeEnabled,
                       SyncEnabledRef(~metronomeEnabled, LifecycleCleanup(MetronomeNow))))
  /\ UNCHANGED <<component, call, upload, store, editor>>

\* the callback of an active interval: beat = (beat % 4) + 1
MetronomeTick(t) ==
  /\ t \in tickTimers
  /\ tickTimers' = (tickTimers \ {t}) \cup {[t EXCEPT !.beat = (t.beat % 4) + 1]}
  /\ currentBeat' = (t.beat % 4) + 1
  /\ UNCHANGED <<component, call, upload, metronomeEnabled, metronomeEnabledRef,
                 metronomeIntervalRef, timersCreated, toggles, store, editor>>

NextMetronome ==
  \/ NextRerecord
  \/ MetronomeToggled
  \/ \E t \in tickTimers : MetronomeTick(t)

SpecMetronome == Init /\ [][NextMetronome]_vars

\* C25: at most one metronome tick timer is active at a time; a tick timer
\* exists only while isRecording and metronomeEnabled; after stopRecording
\* no tick timer remains.
C25_OneTickTimer ==
  /\ Cardinality(tickTimers) <= 1
  /\ tickTimers # {} => (isRecording /\ metronomeEnabled)
  /\ ~isRecording => tickTimers = {}
  /\ \A t \in tickTimers : t.id = metronomeIntervalRef

\* during a recording the metronome was switched off and on again: the one
\* active interval is a later one than the first, and it has ticked
C25_Witness ==
  /\ isRecording
  /\ metronomeEnabled
  /\ toggles >= 2
  /\ Cardinality(tickTimers) = 1
  /\ \E t \in tickTimers : t.id >= 2 /\ t.beat = 3
  /\ recordings = 1

----------------------------------------------------------------------------
(* The patterns API, src/app/api/patterns/route.ts (specification        *)
(* SpecPatterns): every await of a handler is a point where the handlers *)
(* of other requests run                                                 *)

\* the number of requests of a session
MaxRequests == 2

\* the ids of the patterns
PatternIds == {1, 2}

\* a pattern: its id and what stands for the rest of it (name, bars, ...)
Pattern(id, rev) == [id |-> id, rev |-> rev]

NoPattern == Pattern(Null, 0)

\* the lists stored when the session starts: none, two patterns, and three
\* of which two have the same id (POST appends whatever id it is given)
StoredAtStart ==
  {<<>>, <<Pattern(1, 0), Pattern(2, 0)>>,
   <<Pattern(1, 0), Pattern(2, 0), Pattern(1, 0)>>}

\* a request as it arrives: the method and the fields of the JSON body
Request(method, sent, hasPatterns, id) ==
  [method |-> method, pattern |-> sent, hasPatterns |-> hasPatterns,
   patterns |-> <<>>, id |-> id, pc |-> "parsed", read |-> <<>>, status |-> 0]

\* the requests a client sends: GET, POST { pattern }, PUT { pattern },
\* PUT { patterns: [] }, PUT {}, DELETE { id }
RequestsSent ==
  {Request("GET", NoPattern, FALSE, Null), Request("PUT", NoPattern, TRUE, Null),
   Request("PUT", NoPattern, FALSE, Null)}
    \cup {Request("POST", Pattern(i, 1), FALSE, Null) : i \in PatternIds \cup {3}}
    \cup {Request("PUT", Pattern(i, 2), FALSE, Null) : i \in PatternIds \cup {3}}
    \cup {Request("DELETE", NoPattern, FALSE, i) : i \in PatternIds \cup {3}}

\* allPatterns.findIndex(p => p.id === id), from 1; 0 when there is none
RECURSIVE FindIndexFrom(_, _, _)
FindIndexFrom(patterns, id, k) ==
  IF k > Len(patterns) THEN 0
  ELSE IF patterns[k].id = id THEN k
  ELSE FindIndexFrom(patterns, id, k + 1)

FindIndex(patterns, id) == FindIndexFrom(patterns, id, 1)

\* a variant of ReplaceAt that replaces every pattern with the id of the
\* pattern at the index
ReplaceEvery(patterns, index, sent) ==
  [k \in 1..Len(patterns) |->
     IF patterns[k].id = patterns[index].id THEN sent ELSE patterns[k]]

\* allPatterns[index] = pattern
ReplaceAt(patterns, index, sent) == [patterns EXCEPT ![index] = sent]

\* patterns.filter(p => p.id !== id)
FilterOut(patterns, id) ==
  LET Other(p) == p.id # id IN SelectSeq(patterns, Other)

\* the request at position i becomes r
Progress(i, r) == requests' = [requests EXCEPT ![i] = r]

\* the handler has answered with the status code
Answered(r, code) == [r EXCEPT !.pc = "done", !.status = code]

\* a request arrives and its body is parsed (await request.json())
RequestReceived(r) ==
  /\ Len(requests) < MaxRequests
  /\ requests' = Append(requests, r)
  /\ UNCHANGED <<component, call, upload, metronome, patternsFile, editor>>

\* whether the handler of the request calls readPatterns
ReadsPatterns(r) ==
  r.method \in {"GET", "POST", "DELETE"} \/ (r.method = "PUT" /\ r.pattern # NoPattern)

\* readPatterns resolves with the list stored at this moment
ReadPatterns(i) ==
  /\ requests[i].pc = "parsed"
  /\ ReadsPatterns(requests[i])
  /\ Progress(i, [requests[i] EXCEPT !.pc = "read", !.read = patternsFile])
  /\ UNCHANGED <<component, call, upload, metronome, patternsFile, editor>>

\* GET answers with the list it read
Get(i) ==
  /\ requests[i].pc = "read"
  /\ requests[i].method = "GET"
  /\ Progress(i, Answered(requests[i], 200))
  /\ UNCHANGED <<component, call, upload, metronome, patternsFile, editor>>

\* POST: patterns.push(pattern); await writePatterns(patterns)
Post(i) ==
  /\ requests[i].pc = "read"
  /\ requests[i].method = "POST"
  /\ patternsFile' = Append(requests[i].read, requests[i].pattern)
  /\ Progress(i, Answered(requests[i], 200))
  /\ UNCHANGED <<component, call, upload, metronome, editor>>

\* PUT { pattern }: replace the pattern found by id and write, or answer 404
PutPattern(i) ==
  /\ requests[i].pc = "read"
  /\ requests[i].method = "PUT"
  /\ LET index == FindIndex(requests[i].read, requests[i].pattern.id)
     IN IF index # 0
        THEN /\ patternsFile' = ReplaceAt(requests[i].read, index, requests[i].pattern)
             /\ Progress(i, Answered(requests[i], 200))
        ELSE /\ patternsFile' = patternsFile
             /\ Progress(i, Answered(requests[i], 404))
  /\ UNCHANGED <<component, call, upload, metronome, editor>>

\* PUT { patterns }: write the whole list without reading
PutAll(i) ==
  /\ requests[i].pc = "parsed"
  /\ requests[i].method = "PUT"
  /\ requests[i].pattern = NoPattern
  /\ requests[i].hasPatterns
  /\ patternsFile' = requests[i].patterns
  /\ Progress(i, Answered(requests[i], 200))
  /\ UNCHANGED <<component, call, upload, metronome, editor>>

\* PUT with neither field answers 400
PutInvalid(i) ==
  /\ requests[i].pc = "parsed"
  /\ requests[i].method = "PUT"
  /\ requests[i].pattern = NoPattern
  /\ ~requests[i].hasPatterns
  /\ Progress(i, Answered(requests[i], 400))
  /\ UNCHANGED <<component, call, upload, metronome, patternsFile, editor>>

\* DELETE: write the list read without the patterns of the id
Delete(i) ==
  /\ requests[i].pc = "read"
  /\ requests[i].method = "DELETE"
  /\ patternsFile' = FilterOut(requests[i].read, requests[i].id)
  /\ Progress(i, Answered(requests[i], 200))
  /\ UNCHANGED <<component, call, upload, metronome, editor>>

InitPatterns ==
  /\ \E stored \in StoredAtStart : MountedOver(stored)
  /\ callArgs = NoCall
  /\ callResult = NotReturned

NextPatterns ==
  \/ \E r \in RequestsSent : RequestReceived(r)
  \/ \E i \in 1..Len(requests) : ReadPatterns(i)
  \/ \E i \in 1..Len(requests) : Get(i)
  \/ \E i \in 1..Len(requests) : Post(i)
  \/ \E i \in 1..Len(requests) : PutPattern(i)
  \/ \E i \in 1..Len(requests) : PutAll(i)
  \/ \E i \in 1..Len(requests) : PutInvalid(i)
  \/ \E i \in 1..Len(requests) : Delete(i)

SpecPatterns == InitPatterns /\ [][NextPatterns]_vars

\* whether a pattern of the id is stored
C26_Stored(id) == \E k \in 1..Len(patternsFile) : patternsFile[k].id = id

\* whether some request of the session is of the method and names the id
C26_Names(method, id) ==
  \E i \in 1..Len(requests) :
    /\ requests[i].method = method
    /\ requests[i].id = id \/ requests[i].pattern.id = id

\* C26: the patterns API loses no update under concurrency: once the
\* requests handled concurrently have all been answered, the stored list
\* reflects each of them: a pattern that was posted and not deleted is
\* stored (two concurrent POSTs leave both new patterns stored), and a
\* pattern that was deleted and not posted is not.
C26_NoLostUpdate ==
  ((\A i \in 1..Len(requests) : requests[i].pc = "done" /\ requests[i].status = 200)
     /\ \A i \in 1..Len(requests) : requests[i].method \in {"POST", "DELETE"}) =>
    \A id \in PatternIds \cup {3} :
      /\ (C26_Names("POST", id) /\ ~C26_Names("DELETE", id)) => C26_Stored(id)
      /\ (C26_Names("DELETE", id) /\ ~C26_Names("POST", id)) => ~C26_Stored(id)

\* whether the step answers the request at position i
C27_Answers(i) ==
  /\ i <= Len(requests)
  /\ requests[i].pc = "read"
  /\ requests'[i].pc = "done"

\* the number of patterns among the first j stored whose id is not the id
C27_OthersUpTo(id, j) == Cardinality({k \in 1..j : patternsFile[k].id # id})

\* the list stored after the step is the one before it without the
\* patterns of the id, the others in their order
C27_OnlyIdRemoved(id) ==
  /\ Len(patternsFile') = C27_OthersUpTo(id, Len(patternsFile))
  /\ \A j \in 1..Len(patternsFile) :
       patternsFile[j].id # id =>
         patternsFile'[C27_OthersUpTo(id, j)] = patternsFile[j]

\* the list stored after the step is the one before it with the pattern in
\* the place of one pattern of its id
C27_OnlyOneReplaced(sent) ==
  /\ Len(patternsFile') = Len(patternsFile)
  /\ \E k \in 1..Len(patternsFile) :
       /\ patternsFile[k].id = sent.id
       /\ patternsFile'[k] = sent
       /\ \A j \in 1..Len(patternsFile) : j # k => patternsFile'[j] = patternsFile[j]

----------------------------------------------------------------------------
(* The pattern editor, RhythmNotationEditor, and its saved-patterns      *)
(* manager                                                               *)

\* the number of clicks in the editor in a session
MaxEdits == 4

\* the cells that are clicked: the first beat and the end of the second bar
ClickedCells == {0, 1, 2, 3, 30, 31}

\* the bars that are dragged and dropped on
DraggedBars == {0, 1}

\* totalCells = fourBarMode ? 64 : 32
TotalCells(fourBars) == IF fourBars THEN 64 ELSE 32

\* pattern[index] as a condition: undefined past the end of the array
NoteAt(notes, index) == index < Len(notes) /\ notes[index + 1]

\* noteTypes[index]
TypeAt(types, index) == IF index < Len(types) THEN types[index + 1] ELSE "undefined"

\* array[index] = value; the writes of the editor are within the array or
\* at its end, where the array grows by the element
SetAt(array, index, value) ==
  IF index < Len(array) THEN [array EXCEPT ![index + 1] = value]
  ELSE Append(array, value)

\* the cells a note of the type spans
SpanOf(type) == IF type = "quarter" THEN 4 ELSE IF type = "8th" THEN 2 ELSE 1

\* renderGrid, from cell i of a row with skipNext cells still to skip:
\* whether the cell at index gets a button
RECURSIVE RenderedFrom(_, _, _, _)
RenderedFrom(types, index, i, skipNext) ==
  IF i = index THEN skipNext = 0
  ELSE IF skipNext > 0 THEN RenderedFrom(types, index, i + 1, skipNext - 1)
  ELSE RenderedFrom(types, index, i + 1, SpanOf(TypeAt(types, i)) - 1)

\* whether the cell is rendered: the rows of 32 cells start at 0 and at 32,
\* the second row is rendered in four-bar mode only
Rendered(types, fourBars, index) ==
  /\ index < TotalCells(fourBars)
  /\ RenderedFrom(types, index, (index \div 32) * 32, 0)

\* the duration the upper half of a note changes it to
NextType(type) ==
  IF type = "16th" THEN "8th" ELSE IF type = "8th" THEN "quarter" ELSE "16th"

\* `${originalPatternName} (modified)` when a pattern is loaded
MarkedModified(current, original) ==
  IF NameGiven(original) THEN ModifiedName(original) ELSE current

\* a variant of StopPlayback that forgets the interval without clearing it
StopPlaybackRefOnly(pb) ==
  [pb EXCEPT !.intervalRef = Null, !.isPlaying = FALSE, !.position = -1, !.index = 0]

\* stopPlayback, on the record of the playback state
StopPlayback(pb) ==
  [pb EXCEPT !.timers = IF Truthy(pb.intervalRef)
                        THEN {t \in @ : t.id # pb.intervalRef} ELSE @,
             !.intervalRef = IF Truthy(pb.intervalRef) THEN Null ELSE @,
             !.isPlaying = FALSE, !.position = -1, !.index = 0]

\* startPlayback: the audio context exists since the first effect; the
\* callback of the interval keeps the fourBarMode of this render
StartPlayback(pb, fourBars) ==
  [pb EXCEPT !.isPlaying = TRUE, !.index = 0,
             !.created = @ + 1,
             !.timers = @ \cup {[id |-> pb.created + 1, totalCells |-> TotalCells(fourBars)]},
             !.intervalRef = pb.created + 1]

PlaybackNow ==
  [isPlaying |-> isPlaying, position |-> currentPosition, intervalRef |-> intervalRef,
   index |-> currentIndexRef, timers |-> playTimers, created |-> intervalsCreated]

PlaybackBecomes(pb) ==
  /\ isPlaying' = pb.isPlaying
  /\ currentPosition' = pb.position
  /\ intervalRef' = pb.intervalRef
  /\ currentIndexRef' = pb.index
  /\ playTimers' = pb.timers
  /\ intervalsCreated' = pb.created

\* the variables of the editor by what handlers leave alone
grid == <<pattern, noteTypes>>

playback == <<isPlaying, currentPosition, intervalRef, currentIndexRef,
              playTimers, intervalsCreated>>

naming == <<currentPatternId, currentPatternName, originalPatternName>>

manager == <<savedPatterns, isOverwriting, putsInFlight, toast>>

outside == <<component, call, upload, metronome, store>>

\* a click on a rendered cell: toggleNote(index); the duration of a note
\* that is removed goes back to a sixteenth
ToggleNote(index) ==
  /\ edits < MaxEdits
  /\ Rendered(noteTypes, fourBarMode, index)
  /\ edits' = edits + 1
  /\ pattern' = SetAt(pattern, index, ~NoteAt(pattern, index))
  /\ noteTypes' = IF NoteAt(pattern, index) THEN SetAt(noteTypes, index, "16th")
                  ELSE noteTypes
  /\ currentPatternName' = MarkedModified(currentPatternName, originalPatternName)
  /\ UNCHANGED <<outside, fourBarMode, playback, currentPatternId,
                 originalPatternName, manager>>

\* the loop of changeNoteType over the cells a longer note occupies:
\* newPattern[index + i] = false while index + i < totalCells
RECURSIVE ClearSpanned(_, _, _, _, _)
ClearSpanned(notes, index, i, span, totalCells) ==
  IF i >= span THEN notes
  ELSE ClearSpanned(IF index + i < totalCells THEN SetAt(notes, index + i, FALSE)
                    ELSE notes,
                    index, i + 1, span, totalCells)

\* changeNoteType(index, newType)
ChangeNoteType(index, newType) ==
  /\ noteTypes' = SetAt(noteTypes, index, newType)
  /\ pattern' = IF newType = "8th" \/ newType = "quarter"
                THEN ClearSpanned(pattern, index, 1, SpanOf(newType),
                                  TotalCells(fourBarMode))
                ELSE pattern
  /\ currentPatternName' = MarkedModified(currentPatternName, originalPatternName)
  /\ UNCHANGED <<outside, fourBarMode, playback, currentPatternId,
                 originalPatternName, manager>>

\* a click on the upper half of a rendered note: the next duration
DurationClicked(index) ==
  /\ edits < MaxEdits
  /\ Rendered(noteTypes, fourBarMode, index)
  /\ NoteAt(pattern, index)
  /\ edits' = edits + 1
  /\ ChangeNoteType(index, NextType(TypeAt(noteTypes, index)))

\* the 16 cells from toStart on become those from fromStart on
CopyCells(array, fromStart, toStart) ==
  [k \in 1..Len(array) |->
     IF k - 1 >= toStart /\ k - 1 < toStart + 16
     THEN array[k - toStart + fromStart]
     ELSE array[k]]

\* copyBar(fromBar, toBar)
CopyBar(fromBar, toBar) ==
  /\ pattern' = CopyCells(pattern, fromBar * 16, toBar * 16)
  /\ noteTypes' = CopyCells(noteTypes, fromBar * 16, toBar * 16)
  /\ UNCHANGED <<outside, fourBarMode, playback, naming, manager>>

\* a bar is dragged and dropped on another one (the bars can be dragged in
\* four-bar mode): handleBarDrop
BarDropped(draggedBar, targetBar) ==
  /\ edits < MaxEdits
  /\ fourBarMode
  /\ draggedBar # targetBar
  /\ edits' = edits + 1
  /\ CopyBar(draggedBar, targetBar)

\* a click on Copy Bar 1->2, shown in two-bar mode: copyFirstBarToSecond
CopyFirstBarToSecond ==
  /\ edits < MaxEdits
  /\ ~fourBarMode
  /\ edits' = edits + 1
  /\ pattern' = CopyCells(pattern, 0, 16)
  /\ noteTypes' = CopyCells(noteTypes, 0, 16)
  /\ UNCHANGED <<outside, fourBarMode, playback, naming, manager>>

\* a click on the 2 Bars / 4 Bars button
FourBarModeToggled ==
  /\ edits < MaxEdits
  /\ edits' = edits + 1
  /\ fourBarMode' = ~fourBarMode
  /\ UNCHANGED <<outside, grid, playback, naming, manager>>

\* clearPattern
ClearPattern ==
  /\ edits < MaxEdits
  /\ edits' = edits + 1
  /\ pattern' = ArrayOf(TotalCells(fourBarMode), FALSE)
  /\ noteTypes' = ArrayOf(TotalCells(fourBarMode), "16th")
  /\ currentPatternId' = Null
  /\ currentPatternName' = NullName
  /\ originalPatternName' = NullName
  /\ PlaybackBecomes(StopPlayback(PlaybackNow))
  /\ UNCHANGED <<outside, fourBarMode, manager>>

\* a click on Load at a saved pattern: loadPattern
LoadPattern(savedPattern) ==
  /\ edits < MaxEdits
  /\ edits' = edits + 1
  /\ pattern' = savedPattern.pattern
  /\ noteTypes' = savedPattern.durations
  /\ currentPatternId' = savedPattern.id
  /\ currentPatternName' = savedPattern.name
  /\ originalPatternName' = savedPattern.name
  /\ fourBarMode' = (Len(savedPattern.pattern) > 32)
  /\ PlaybackBecomes(StopPlayback(PlaybackNow))
  /\ UNCHANGED <<outside, manager>>

\* a click on Play Pattern / Stop: togglePlayback
TogglePlayback ==
  /\ edits < MaxEdits
  /\ edits' = edits + 1
  /\ PlaybackBecomes(IF isPlaying THEN StopPlayback(PlaybackNow)
                     ELSE StartPlayback(PlaybackNow, fourBarMode))
  /\ UNCHANGED <<outside, grid, fourBarMode, naming, manager>>

\* the callback of an active playback interval: it shows the step and moves
\* on to the next one, over the cells of the mode it was started in
PlaybackTick(t) ==
  /\ t \in playTimers
  /\ currentPosition' = currentIndexRef
  /\ currentIndexRef' = (currentIndexRef + 1) % t.totalCells
  /\ UNCHANGED <<outside, grid, fourBarMode, isPlaying, intervalRef, playTimers,
                 intervalsCreated, naming, manager, edits>>

\* the pattern editor on its grid (specification SpecEditing)
NextEditing ==
  \/ \E index \in ClickedCells : ToggleNote(index)
  \/ \E index \in ClickedCells : DurationClicked(index)
  \/ \E from \in DraggedBars, to \in DraggedBars : BarDropped(from, to)
  \/ CopyFirstBarToSecond
  \/ FourBarModeToggled
  \/ ClearPattern

SpecEditing == Init /\ [][NextEditing]_vars

\* C28: after any sequence of toggleNote, changeNoteType, copyBar and
\* clearPattern, every cell whose note is off has the duration '16th', so
\* that an empty cell never spans or hides neighbouring cells.
C28_OffCellsAreSixteenth ==
  \A index \in 0..(Len(pattern) - 1) :
    ~NoteAt(pattern, index) => TypeAt(noteTypes, index) = "16th"

\* the pattern editor and its playback (specification SpecPlayback)
NextPlayback ==
  \/ TogglePlayback
  \/ ClearPattern
  \/ \E k \in 1..Len(savedPatterns) : LoadPattern(savedPatterns[k])
  \/ FourBarModeToggled
  \/ \E t \in playTimers : PlaybackTick(t)

SpecPlayback == Init /\ [][NextPlayback]_vars

\* C29: after any sequence of togglePlayback, clearPattern and loadPattern,
\* isPlaying is true exactly when one playback interval timer is active
\* (never two); whenever playback is stopped the playhead position is -1
\* and the step index is 0.
C29_PlayingIffOneTimer ==
  /\ Cardinality(playTimers) <= 1
  /\ isPlaying <=> Cardinality(playTimers) = 1
  /\ ~isPlaying => (currentPosition = -1 /\ currentIndexRef = 0)

\* playback was started a second time and has been stopped by loading a
\* pattern after it had moved the playhead
C29_Witness ==
  /\ ~isPlaying
  /\ intervalsCreated = 2
  /\ currentPatternId # Null
  /\ playTimers = {}
  /\ currentPosition = -1

\* a click on Overwrite, shown at the saved pattern that is loaded and
\* enabled while it is not being overwritten: overwritePattern(id) up to
\* its fetch
OverwriteClicked(id) ==
  /\ edits < MaxEdits
  /\ currentPatternId = id
  /\ isOverwriting # id
  /\ FindIndex(savedPatterns, id) # 0
  /\ edits' = edits + 1
  /\ isOverwriting' = id
  /\ putsInFlight' = putsInFlight \cup
       {[savedPatterns[FindIndex(savedPatterns, id)]
           EXCEPT !.pattern = pattern, !.durations = noteTypes]}
  /\ UNCHANGED <<outside, grid, fourBarMode, playback, naming, savedPatterns, toast>>

\* the editor's onPatternOverwritten = (originalName) =>
\* setCurrentPatternName(originalName), called as onPatternOverwritten?.():
\* the parameter is undefined
OnPatternOverwritten == currentPatternName' = UndefinedName

\* overwritePattern after its fetch: the API answered ok with the list in
\* which the pattern is replaced
OverwriteSucceeds(updatedPattern) ==
  /\ updatedPattern \in putsInFlight
  /\ FindIndex(savedPatterns, updatedPattern.id) # 0
  /\ putsInFlight' = putsInFlight \ {updatedPattern}
  /\ savedPatterns' = ReplaceAt(savedPatterns,
                                FindIndex(savedPatterns, updatedPattern.id),
                                updatedPattern)
  /\ OnPatternOverwritten
  /\ toast' = "updated"
  /\ isOverwriting' = Null
  /\ UNCHANGED <<outside, grid, fourBarMode, playback, currentPatternId,
                 originalPatternName, edits>>

\* overwritePattern after its fetch: the API did not answer ok, or the
\* fetch threw
OverwriteFails(updatedPattern) ==
  /\ updatedPattern \in putsInFlight
  /\ putsInFlight' = putsInFlight \ {updatedPattern}
  /\ toast' = "failed"
  /\ isOverwriting' = Null
  /\ UNCHANGED <<outside, grid, fourBarMode, playback, naming, savedPatterns, edits>>

\* the pattern editor with its saved patterns (specification SpecNaming)
NextNaming ==
  \/ \E k \in 1..Len(savedPatterns) : LoadPattern(savedPatterns[k])
  \/ \E index \in ClickedCells : ToggleNote(index)
  \/ \E index \in ClickedCells : DurationClicked(index)
  \/ ClearPattern
  \/ \E k \in 1..Len(savedPatterns) : OverwriteClicked(savedPatterns[k].id)
  \/ \E u \in putsInFlight : OverwriteSucceeds(u)
  \/ \E u \in putsInFlight : OverwriteFails(u)

SpecNaming == Init /\ [][NextNaming]_vars

\* C30: after a loaded pattern has been modified (its name shown as
\* '<name> (modified)') and then successfully overwritten through the
\* saved-patterns manager, the editor's current pattern name is the
\* original pattern name again.
C30_NameRestored ==
  [][(/\ Cardinality(putsInFlight') < Cardinality(putsInFlight)
      /\ toast' = "updated"
      /\ NameGiven(originalPatternName)
      /\ currentPatternName = ModifiedName(originalPatternName)) =>
       currentPatternName' = originalPatternName]_vars

----------------------------------------------------------------------------
(* The component with the upload area and the Analyze Rhythm button      *)
(* (specification SpecUpload)                                            *)

\* the number of files selected in a session
MaxUploads == 1

\* the number of clicks on Analyze Rhythm in a session
MaxAnalyzeClicks == 1

\* the decoded contents of the files: the recordings without an attack
\* at the first slot
UploadBuffers == {x \in Buffers : At(x, ClickSlots[1]) = 0}

\* handleFileSelect with a file that passes validateFile: processAudioFile
\* starts decoding it
FileSelected ==
  /\ uploads < MaxUploads
  /\ uploads' = uploads + 1
  /\ uploading' = uploading + 1
  /\ UNCHANGED <<component, call, analyzeClicks, metronome, store, editor>>

\* processAudioFile after decodeAudioData resolved: onFileProcessed is
\* handleFileUploaded, which publishes the buffer and asks for a click
FileProcessed(x) ==
  /\ uploading > 0
  /\ uploading' = uploading - 1
  /\ audioBuffer' = [present |-> TRUE, data |-> x]
  /\ status' = [type |-> "ready", note |-> "uploaded"]
  /\ UNCHANGED <<analysisResult, isAnalyzing, isRecording, decoding, timers,
                 lastRun, recordings, call, uploads, analyzeClicks, metronome, store, editor>>

\* processAudioFile when decoding throws or the duration is refused
FileRefused ==
  /\ uploading > 0
  /\ uploading' = uploading - 1
  /\ UNCHANGED <<component, call, uploads, analyzeClicks, metronome, store, editor>>

\* a click on Analyze Rhythm, shown with a buffer and enabled while not
\* analyzing: onAnalyze is () => {}
AnalyzeClicked ==
  /\ audioBuffer.present
  /\ ~isAnalyzing
  /\ analyzeClicks < MaxAnalyzeClicks
  /\ analyzeClicks' = analyzeClicks + 1
  /\ UNCHANGED <<component, call, uploading, uploads, metronome, store, editor>>

NextUpload ==
  \/ Next
  \/ FileSelected
  \/ \E x \in UploadBuffers : FileProcessed(x)
  \/ FileRefused
  \/ AnalyzeClicked

SpecUpload == Init /\ [][NextUpload]_vars

\* C17: after a file has been uploaded, a click on Analyze Rhythm runs
\* analyzeRhythm on the uploaded buffer and a result is published (or the
\* run is scheduled).
C17_AnalyzeRunsOnUpload ==
  [][(analyzeClicks' > analyzeClicks /\ status.note = "uploaded") =>
       \/ analysisResult'.present /\ lastRun'.buffer = audioBuffer.data
       \/ /\ Len(timers') > Len(timers)
          /\ timers'[Len(timers')].buffer = audioBuffer.data]_vars

====
